---- MODULE Spec2Model ----
(***************************************************************************)
(* nullmodel: a fake LLM API server.  The model covers the fault-injection *)
(* engine (utils/chaos.js), the token segmenter and latency helpers        *)
(* (utils/streaming.js), the persona catalog (personas/index.js), the      *)
(* request dispatcher (server.js) and the three protocol emitters          *)
(* (providers/openai.js, anthropic.js, gemini.js).                         *)
(*                                                                         *)
(* A JavaScript string is a sequence of one-character strings.  One action *)
(* of the server model is one turn of the event loop: the code that runs   *)
(* between two awaits, which nothing can interleave with.                  *)
(***************************************************************************)
EXTENDS Integers, Sequences, FiniteSets, TLC

VARIABLES
    config,   \* the configuration object handed to createNullModelServer
    conn,     \* per connection: the request, the handler's position, the response
    fnIn,     \* pure-function harness: the arguments of one call
    fnOut     \* pure-function harness: the value the call returned

vars == <<config, conn, fnIn, fnOut>>

----------------------------------------------------------------------------
(* Bounds of the model *)

\* catalog texts are modelled by their first MaxText characters
MaxText == 24
\* longest input string handed to tokenize by the harness
MaxLen == 4
\* probabilities are multiples of 1/RateScale; a draw is roll/RateScale
RateScale == 4

Min(a, b) == IF a < b THEN a ELSE b

Text(s) == SubSeq(s, 1, Min(Len(s), MaxText))

----------------------------------------------------------------------------
(* utils/streaming.js: tokenize *)

\* \w of a JavaScript regular expression without the u flag: [A-Za-z0-9_]
WordChars ==
    {"a","b","c","d","e","f","g","h","i","j","k","l","m","n","o","p","q","r","s","t",
     "u","v","w","x","y","z","A","B","C","D","E","F","G","H","I","J","K","L","M","N",
     "O","P","Q","R","S","T","U","V","W","X","Y","Z","0","1","2","3","4","5","6","7",
     "8","9","_"}

\* \s, restricted to the whitespace characters that ASCII text can hold
SpaceChars == {" ", "\n", "\t", "\r"}

IsSpace(ch) == ch \in SpaceChars

IsWord(ch) == ch \in WordChars

\* length of the longest run of characters of `set` that starts at text[i]
RECURSIVE RunLen(_, _, _)
RunLen(text, i, set) ==
    IF i > Len(text) \/ text[i] \notin set THEN 0
    ELSE 1 + RunLen(text, i + 1, set)

\* first alternative, \s+ (greedy): the length matched at i, 0 for no match
MatchSpaces(text, i) == RunLen(text, i, SpaceChars)

\* a regular expression that lost its middle alternative
MatchOtherDropped(text, i) == 0

\* second alternative, [^\s\w]: exactly one character that is neither
MatchOther(text, i) ==
    IF i <= Len(text) /\ ~IsSpace(text[i]) /\ ~IsWord(text[i]) THEN 1 ELSE 0

\* \w+? instead of \w+: the lazy quantifier stops after one character
MatchWordsLazy(text, i) == IF i <= Len(text) /\ IsWord(text[i]) THEN 1 ELSE 0

\* third alternative, \w+ (greedy)
MatchWords(text, i) == RunLen(text, i, WordChars)

\* the alternation tries its branches left to right at one position
MatchAt(text, i) ==
    IF MatchSpaces(text, i) > 0 THEN MatchSpaces(text, i)
    ELSE IF MatchOther(text, i) > 0 THEN MatchOther(text, i)
    ELSE MatchWords(text, i)

\* the while loop over regex.exec: exec searches forward from lastIndex for the
\* first position with a match, pushes match[0] and moves lastIndex past it
RECURSIVE TokenizeFrom(_, _)
TokenizeFrom(text, i) ==
    IF i > Len(text) THEN <<>>
    ELSE IF MatchAt(text, i) = 0 THEN TokenizeFrom(text, i + 1)
    ELSE <<SubSeq(text, i, i + MatchAt(text, i) - 1)>>
             \o TokenizeFrom(text, i + MatchAt(text, i))

tokenize(text) == TokenizeFrom(text, 1)

\* text.length / 4, rounded up
estimateTokens(text) == (Len(text) + 3) \div 4

Max(a, b) == IF a > b THEN a ELSE b

\* the grid of Math.random(): a draw d stands for d / JitterScale, in [0, 1)
JitterScale == 8

\* Math.round of the fraction n / d (d > 0): the nearest integer, halves up
Round(n, d) == (2 * n + d) \div (2 * d)

\* Math.round(base * jitter), jitter = 1 + (Math.random() * 2 - 1) * variance;
\* variance is in percent
JitteredBase(base, variance, d) ==
    Round(base * (100 * JitterScale + (2 * d - JitterScale) * variance), 100 * JitterScale)

\* Math.round(base * jitter) returned as it is
getTokenDelayUnfloored(cfg, d) ==
    JitteredBase(cfg.latency.perToken, cfg.latency.variance, d)

\* Math.max(5, Math.round(base * jitter)), base = config.latency.perToken
getTokenDelay(cfg, d) ==
    Max(5, JitteredBase(cfg.latency.perToken, cfg.latency.variance, d))

\* Math.max(50, Math.round(base * jitter)), base = config.latency.firstToken
getFirstTokenDelay(cfg, d) ==
    Max(50, JitteredBase(cfg.latency.firstToken, cfg.latency.variance, d))

\* str.slice(i, i + size) for i = 0, size, 2*size, ... (i is 1-based here)
RECURSIVE ChunkFrom(_, _, _)
ChunkFrom(str, i, size) ==
    IF i > Len(str) THEN <<>>
    ELSE <<SubSeq(str, i, Min(i + size - 1, Len(str)))>> \o ChunkFrom(str, i + size, size)

\* a loop that stops where a whole chunk no longer fits
chunkStringDropTail(str, size) ==
    ChunkFrom(SubSeq(str, 1, (Len(str) \div size) * size), 1, size)

chunkString(str, size) == ChunkFrom(str, 1, size)

----------------------------------------------------------------------------
(* utils/chaos.js *)

\* a draw that is below a band's upper edge is compared against the band's own
\* rate instead of the cumulative sum
shouldTriggerChaosNonCumulative(cfg, roll) ==
    IF ~cfg.chaos.enabled THEN "none"
    ELSE IF roll < cfg.chaos.rateLimitRate THEN "rate_limit"
    ELSE IF roll < cfg.chaos.errorRate THEN "server_error"
    ELSE IF roll < cfg.chaos.slowdownRate THEN "slowdown"
    ELSE "none"

\* the enabled flag is not consulted
shouldTriggerChaosAlwaysOn(cfg, roll) ==
    IF roll < cfg.chaos.rateLimitRate THEN "rate_limit"
    ELSE IF roll < cfg.chaos.rateLimitRate + cfg.chaos.errorRate THEN "server_error"
    ELSE IF roll < cfg.chaos.rateLimitRate + cfg.chaos.errorRate + cfg.chaos.slowdownRate
        THEN "slowdown"
    ELSE "none"

\* a fourth band: what the three rates leave over is a timeout
shouldTriggerChaosWithTimeout(cfg, roll) ==
    IF ~cfg.chaos.enabled THEN "none"
    ELSE IF roll < cfg.chaos.rateLimitRate THEN "rate_limit"
    ELSE IF roll < cfg.chaos.rateLimitRate + cfg.chaos.errorRate THEN "server_error"
    ELSE IF roll < cfg.chaos.rateLimitRate + cfg.chaos.errorRate + cfg.chaos.slowdownRate
        THEN "slowdown"
    ELSE "timeout"

\* roll stands for Math.random() * RateScale; "none" stands for null
shouldTriggerChaos(cfg, roll) ==
    IF ~cfg.chaos.enabled THEN "none"
    ELSE IF roll < cfg.chaos.rateLimitRate THEN "rate_limit"
    ELSE IF roll < cfg.chaos.rateLimitRate + cfg.chaos.errorRate THEN "server_error"
    ELSE IF roll < cfg.chaos.rateLimitRate + cfg.chaos.errorRate + cfg.chaos.slowdownRate
        THEN "slowdown"
    ELSE "none"

Providers == {"openai", "anthropic", "gemini"}

ErrorKinds == {"rate_limit", "server_error", "context_length", "timeout"}

\* property names every object literal inherits from Object.prototype
ObjectProtoKeys == {"constructor", "toString", "valueOf", "hasOwnProperty", "__proto__"}

\* the Gemini timeout entry with the status of the other two providers
ErrorStatusUniformTimeout(kind, provider) ==
    CASE kind = "rate_limit" -> 429
      [] kind = "server_error" -> 500
      [] kind = "context_length" -> 400
      [] kind = "timeout" -> 408

\* the status of errors[kind][provider]
ErrorStatus(kind, provider) ==
    CASE kind = "rate_limit" -> 429
      [] kind = "server_error" -> 500
      [] kind = "context_length" -> 400
      [] kind = "timeout" -> IF provider = "gemini" THEN 504 ELSE 408

\* the retry-after header on the OpenAI entry only
ErrorHeadersOpenAIOnly(kind, provider) ==
    IF kind = "rate_limit" /\ provider = "openai"
    THEN {"retry-after", "x-ratelimit-remaining-tokens"}
    ELSE {}

\* the headers of errors[kind][provider]; only rate_limit entries have any
ErrorHeaders(kind, provider) ==
    IF kind # "rate_limit" THEN {}
    ELSE IF provider = "openai" THEN {"retry-after", "x-ratelimit-remaining-tokens"}
    ELSE {"retry-after"}

\* a value of the `errors` table: status, headers, and a body in the error
\* schema of `provider` that reports `kind`
ErrorPayload(kind, provider) ==
    [isPayload |-> TRUE, status |-> ErrorStatus(kind, provider),
     headers |-> ErrorHeaders(kind, provider),
     body |-> [schema |-> provider, kind |-> kind]]

\* what a lookup yields that is no table entry: `undefined`, or a member
\* inherited from Object.prototype (a function or an object, truthy, with no
\* status and no body)
Undefined ==
    [isPayload |-> FALSE, status |-> 0, headers |-> {},
     body |-> [schema |-> "undefined", kind |-> "undefined"]]

Inherited ==
    [isPayload |-> FALSE, status |-> 0, headers |-> {},
     body |-> [schema |-> "inherited", kind |-> "inherited"]]

Truthy(v) == v # Undefined

\* errors[type]?.[provider]
ErrorsLookup(type, provider) ==
    IF type \in ErrorKinds THEN
        IF provider \in Providers THEN ErrorPayload(type, provider)
        ELSE IF provider \in ObjectProtoKeys THEN Inherited
        ELSE Undefined
    ELSE IF type \in ObjectProtoKeys /\ provider \in ObjectProtoKeys THEN Inherited
    ELSE Undefined

\* errors[type]?.[provider] || errors.server_error[provider] || errors.server_error.openai
getChaosResponse(type, provider) ==
    IF Truthy(ErrorsLookup(type, provider)) THEN ErrorsLookup(type, provider)
    ELSE IF Truthy(ErrorsLookup("server_error", provider))
        THEN ErrorsLookup("server_error", provider)
    ELSE ErrorsLookup("server_error", "openai")

----------------------------------------------------------------------------
(* personas/index.js: the catalog.  The arguments of a tool call are kept   *)
(* as JSON.stringify renders them; the grave accent is written "U+0060".    *)

balanced_responses ==
    << Text(<<"T","h","a","t","'","s"," ","a"," ","g","r","e","a","t"," ","q","u","e","s","t","i","o","n","."," ","L","e","t"," ","m","e"," ">>),
       Text(<<"H","e","r","e","'","s"," ","w","h","a","t"," ","I","'","d"," ","s","u","g","g","e","s","t",":","\n","\n","F","i","r","s","t",",">>),
       Text(<<"T","h","e","r","e"," ","a","r","e"," ","a"," ","f","e","w"," ","w","a","y","s"," ","t","o"," ","a","p","p","r","o","a","c","h">>) >>

verbose_responses ==
    << Text(<<"T","h","i","s"," ","i","s"," ","a"," ","r","e","a","l","l","y"," ","i","m","p","o","r","t","a","n","t"," ","t","o","p","i","c">>) >>

terse_responses ==
    << Text(<<"Y","e","s",","," ","t","h","a","t","'","s"," ","c","o","r","r","e","c","t",".">>),
       Text(<<"N","o","."," ","U","s","e"," ","a"," ","U+0060","M","a","p","U+0060"," ","i","n","s","t","e","a","d",".">>),
       Text(<<"4","2",".">>),
       Text(<<"T","r","y"," ","U+0060","J","S","O","N",".","p","a","r","s","e","(",")","U+0060"," ","w","i","t","h"," ","a"," ","t","r","y","-","c","a">>),
       Text(<<"T","h","a","t","'","s"," ","a"," ","b","u","g",","," ","n","o","t"," ","a"," ","f","e","a","t","u","r","e",".">>),
       Text(<<"C","o","r","r","e","c","t",".">>) >>

code_responses ==
    << Text(<<"H","e","r","e","'","s"," ","a"," ","c","l","e","a","n"," ","i","m","p","l","e","m","e","n","t","a","t","i","o","n",":","\n","\n">>),
       Text(<<"Q","u","i","c","k"," ","s","o","l","u","t","i","o","n",":","\n","\n","U+0060","U+0060","U+0060","j","a","v","a","s","c","r","i","p","t","\n","c">>) >>

markdown_responses ==
    << Text(<<"#"," ","C","o","m","p","a","r","i","s","o","n",":"," ","S","t","r","e","a","m","i","n","g"," ","A","p","p","r","o","a","c","h">>) >>

tool_calls_responses ==
    << Text(<<"I","'","l","l"," ","l","o","o","k"," ","u","p"," ","t","h","e"," ","c","u","r","r","e","n","t"," ","w","e","a","t","h","e","r">>),
       Text(<<"L","e","t"," ","m","e"," ","s","e","a","r","c","h"," ","t","h","e"," ","d","a","t","a","b","a","s","e"," ","f","o","r"," ","t">>),
       Text(<<"I","'","l","l"," ","c","r","e","a","t","e"," ","t","h","a","t"," ","d","o","c","u","m","e","n","t"," ","f","o","r"," ","y","o">>) >>

error_prone_responses ==
    << Text(<<"_","_","E","R","R","O","R","_","_",":","r","a","t","e","_","l","i","m","i","t">>),
       Text(<<"_","_","E","R","R","O","R","_","_",":","c","o","n","t","e","x","t","_","l","e","n","g","t","h">>),
       Text(<<"_","_","E","R","R","O","R","_","_",":","s","e","r","v","e","r","_","e","r","r","o","r">>),
       Text(<<"_","_","E","R","R","O","R","_","_",":","t","i","m","e","o","u","t">>),
       Text(<<"T","h","i","s"," ","r","e","s","p","o","n","s","e"," ","w","o","r","k","s"," ","f","i","n","e"," ","t","h","o","u","g","h",".">>) >>

argsJSON1 ==
    <<"{","\"","l","o","c","a","t","i","o","n","\"",":","\"","S","a","n"," ","F","r","a","n","c","i","s","c","o",","," ","C","A","\"",",","\"","u","n","i","t","\"",":","\"","c","e","l","s","i","u","s","\"","}">>

argsJSON2 ==
    <<"{","\"","q","u","e","r","y","\"",":","\"","r","e","c","e","n","t"," ","o","r","d","e","r","s","\"",",","\"","l","i","m","i","t","\"",":","1","0",",","\"","s","t","a","t","u","s","\"",":","\"","p","e","n","d","i","n","g","\"","}">>

argsJSON3 ==
    <<"{","\"","t","i","t","l","e","\"",":","\"","Q","4"," ","P","l","a","n","n","i","n","g"," ","N","o","t","e","s","\"",",","\"","c","o","n","t","e","n","t","\"",":","\"","I","n","i","t","i","a","l"," ","d","r","a","f","t"," ","f","o","r"," ","Q","4"," ","p","l","a","n","n","i","n","g",".",".",".","\"",",","\"","t","a","g","s","\"",":","[","\"","p","l","a","n","n","i","n","g","\"",",","\"","q","4","\"",",","\"","2","0","2","5","\"","]","}">>

tool_calls_toolCalls ==
    << [name |-> "get_weather", arguments |-> argsJSON1],
       [name |-> "search_database", arguments |-> argsJSON2],
       [name |-> "create_document", arguments |-> argsJSON3] >>

PersonaNames ==
    {"balanced", "verbose", "terse", "code", "markdown", "tool_calls", "error_prone"}

\* a catalog entry without toolCalls: persona.toolCalls is undefined
TextPersona(n, rs) ==
    [isPersona |-> TRUE, name |-> n, responses |-> rs,
     hasToolCalls |-> FALSE, toolCalls |-> <<>>]

personas ==
    [balanced |-> TextPersona("balanced", balanced_responses),
     verbose |-> TextPersona("verbose", verbose_responses),
     terse |-> TextPersona("terse", terse_responses),
     code |-> TextPersona("code", code_responses),
     markdown |-> TextPersona("markdown", markdown_responses),
     tool_calls |-> [isPersona |-> TRUE, name |-> "tool_calls",
                     responses |-> tool_calls_responses,
                     hasToolCalls |-> TRUE, toolCalls |-> tool_calls_toolCalls],
     error_prone |-> TextPersona("error_prone", error_prone_responses)]

\* personas[name] for a name the catalog inherits from Object.prototype: a
\* function or object that is truthy and has neither responses nor toolCalls
InheritedMember ==
    [isPersona |-> FALSE, name |-> "Object", responses |-> <<>>,
     hasToolCalls |-> FALSE, toolCalls |-> <<>>]

\* personas[name] || personas.balanced
getPersona(name) ==
    IF name \in PersonaNames THEN personas[name]
    ELSE IF name \in ObjectProtoKeys THEN InheritedMember
    ELSE personas.balanced

\* the values getResponse(p) can return, one per value of idx
getResponse(p) ==
    {[content |-> p.responses[idx], hasTool |-> FALSE, textIdx |-> idx, toolIdx |-> 0] :
        idx \in 1 .. Len(p.responses)}

\* toolCalls[idx] with responses[0]
getToolCallFirstText(p) ==
    {[content |-> p.responses[1], hasTool |-> TRUE, textIdx |-> 1, toolIdx |-> idx] :
        idx \in 1 .. Len(p.toolCalls)}

\* the values getToolCall(p) can return: toolCalls[idx] with
\* responses[idx] || responses[0]
getToolCall(p) ==
    {[content |-> IF idx <= Len(p.responses) THEN p.responses[idx] ELSE p.responses[1],
      hasTool |-> TRUE, textIdx |-> IF idx <= Len(p.responses) THEN idx ELSE 1,
      toolIdx |-> idx] :
        idx \in 1 .. Len(p.toolCalls)}

\* the configured default read ahead of the override
resolvePersonaDefaultFirst(body, cfg) ==
    getPersona(IF cfg.defaults.persona # "" THEN cfg.defaults.persona ELSE body.persona)

\* body._persona || config.defaults.persona ("" stands for an absent hint)
resolvePersona(body, cfg) ==
    getPersona(IF body.persona # "" THEN body.persona ELSE cfg.defaults.persona)

\* the persona's name is not consulted
IsToolCallToolsOnly(persona, body) == body.tools

\* persona.name === 'tool_calls' || body.tools?.length > 0
IsToolCall(persona, body) == persona.name = "tool_calls" \/ body.tools

\* whether the content resolution of a handler throws: getResponse reads
\* p.responses.length, and an inherited member has no responses
SelectionThrows(persona, body) ==
    ~(IsToolCall(persona, body) /\ persona.hasToolCalls) /\ ~persona.isPersona

\* if (isToolCall && persona.toolCalls) getToolCall(persona) else getResponse(persona)
SelectContent(persona, body) ==
    IF IsToolCall(persona, body) /\ persona.hasToolCalls THEN getToolCall(persona)
    ELSE getResponse(persona)

----------------------------------------------------------------------------
(* config.js: DEFAULTS *)

FirstTokenDefault == 300
PerTokenDefault == 30
\* variance 0.3, in percent
VarianceDefault == 30
SlowdownMultiplierDefault == 5

\* the configurations the server is started with: the defaults, with the chaos
\* switch, the three chaos rates and the default persona set by the operator
MakeConfig(enabled, rates, persona) ==
    [chaos |-> [enabled |-> enabled, rateLimitRate |-> rates[1], errorRate |-> rates[2],
                slowdownRate |-> rates[3],
                slowdownMultiplier |-> SlowdownMultiplierDefault],
     latency |-> [firstToken |-> FirstTokenDefault, perToken |-> PerTokenDefault,
                  variance |-> VarianceDefault],
     defaults |-> [persona |-> persona]]

\* (rateLimitRate, errorRate, slowdownRate) in units of 1/RateScale
ChaosRates ==
    {<<0, 0, 0>>, <<RateScale, 0, 0>>, <<0, RateScale, 0>>, <<0, 0, RateScale>>,
     <<1, 1, 1>>, <<RateScale, RateScale, RateScale>>}

DefaultPersonas == {"balanced", "tool_calls"}

\* latency and slowdown settings of the operator: the defaults, and a setting
\* with small bases, variance 1.0 and multiplier 2
Tunings ==
    {[firstToken |-> FirstTokenDefault, perToken |-> PerTokenDefault,
      variance |-> VarianceDefault, slowdownMultiplier |-> SlowdownMultiplierDefault],
     [firstToken |-> 40, perToken |-> 4, variance |-> 100, slowdownMultiplier |-> 2]}

Configs ==
    {[MakeConfig(e, r, p) EXCEPT
         !.latency = [firstToken |-> t.firstToken, perToken |-> t.perToken,
                      variance |-> t.variance],
         !.chaos.slowdownMultiplier = t.slowdownMultiplier] :
        e \in BOOLEAN, r \in ChaosRates, p \in DefaultPersonas, t \in Tunings}

\* a handler that has not been given a configuration yet
NoConfig == MakeConfig(FALSE, <<0, 0, 0>>, "")

----------------------------------------------------------------------------
(* server.js: what one connection is and what is written to it *)

\* one entry of a connection's history: a call on `res` (head, write, end), a
\* suspension (sleep), a poll of res.destroyed (check), the chaos decision
\* (decide) or the content resolution (select).  `alive` is the value of
\* !res.destroyed when the entry was made; `base` is the latency base a sleep
\* computes its delay from; inTok, outTok and totTok are the counts of a usage
\* object (-1 for a count the object does not have); `name` is the name of a
\* tool call and `safety` tells that safetyRatings are present; a connection's
\* destroyedAt is the length of its history when the peer closed it.
E0 ==
    [ev |-> "", tag |-> "", sub |-> "", code |-> 0, hdrs |-> {}, block |-> -1,
     unit |-> <<>>, fin |-> "", usage |-> FALSE, alive |-> TRUE, base |-> 0,
     inTok |-> -1, outTok |-> -1, totTok |-> -1, name |-> "", safety |-> FALSE]

writeHead(s, code, hdrs) ==
    [E0 EXCEPT !.ev = "head", !.code = code, !.hdrs = hdrs, !.alive = ~s.destroyed]

Frame(s, tag) == [E0 EXCEPT !.ev = "write", !.tag = tag, !.alive = ~s.destroyed]

End(s, tag) == [E0 EXCEPT !.ev = "end", !.tag = tag, !.alive = ~s.destroyed]

\* await sleep(getFirstTokenDelay(config)) / await sleep(getTokenDelay(config)),
\* config being the handler's own
Sleep(s, kind) ==
    [E0 EXCEPT !.ev = "sleep", !.tag = kind,
               !.base = IF kind = "first" THEN s.hcfg.latency.firstToken
                        ELSE s.hcfg.latency.perToken]

Check(s) == [E0 EXCEPT !.ev = "check", !.alive = ~s.destroyed]

Emit(s, events) == [s EXCEPT !.trace = @ \o events]

NoRequest ==
    [method |-> "", path |-> "", bodyOk |-> FALSE, isNull |-> FALSE,
     body |-> [stream |-> FALSE, persona |-> "", tools |-> FALSE, messages |-> FALSE]]

NoSelection == [content |-> <<>>, hasTool |-> FALSE, textIdx |-> 0, toolIdx |-> 0]

IdleConn ==
    [pc |-> "idle", req |-> NoRequest, provider |-> "", stream |-> FALSE,
     chaosType |-> "unset", draws |-> 0, hcfg |-> NoConfig, sel |-> NoSelection,
     loop |-> "", units |-> <<>>, i |-> 0, trace |-> <<>>, destroyed |-> FALSE,
     destroyedAt |-> 0]

\* res.writeHead(status, {'Content-Type': 'application/json'}); res.end(body)
sendJSON(s, status, tag) ==
    [Emit(s, <<writeHead(s, status, {"content-type"}), End(s, tag)>>) EXCEPT !.pc = "done"]

\* the serialized arguments of the selected tool call
ArgsStr(s) == tool_calls_toolCalls[s.sel.toolIdx].arguments

\* JSON.stringify(body.messages || []), and for Gemini of body.contents: of an
\* absent list, and of a list with one user message "Hello"
PromptJSON(s) ==
    IF ~s.req.body.messages THEN <<"[", "]">>
    ELSE IF s.provider = "gemini"
        THEN <<"[","{","\"","r","o","l","e","\"",":","\"","u","s","e","r","\"",",","\"","p","a","r","t","s","\"",":","[","{","\"","t","e","x","t","\"",":","\"","H","e","l","l","o","\"","}","]","}","]">>
    ELSE <<"[","{","\"","r","o","l","e","\"",":","\"","u","s","e","r","\"",",","\"","c","o","n","t","e","n","t","\"",":","\"","H","e","l","l","o","\"","}","]">>

\* promptTokens / inputTokens
PromptTokens(s) == estimateTokens(PromptJSON(s))

\* completionTokens / outputTokens
CompletionTokens(s) == estimateTokens(s.sel.content)

\* a frame or document with a usage object of the given counts
WithUsage(e, in, out, tot) ==
    [e EXCEPT !.usage = TRUE, !.inTok = in, !.outTok = out, !.totTok = tot]

----------------------------------------------------------------------------
(* providers/openai.js *)

OpenAIChunkSize == 8

\* total_tokens without the prompt's share
OpenAISendNonStreamingTotalShort(s) ==
    [Emit(s, <<writeHead(s, 200, {"content-type"}),
               WithUsage([End(s, "chat.completion") EXCEPT
                             !.sub = IF s.sel.hasTool THEN "tool_calls" ELSE "content",
                             !.unit = IF s.sel.hasTool THEN ArgsStr(s) ELSE s.sel.content,
                             !.fin = IF s.sel.hasTool THEN "tool_calls" ELSE "stop"],
                         PromptTokens(s), CompletionTokens(s), CompletionTokens(s))>>)
        EXCEPT !.pc = "done"]

\* sendNonStreaming: one JSON document
OpenAISendNonStreaming(s) ==
    [Emit(s, <<writeHead(s, 200, {"content-type"}),
               WithUsage([End(s, "chat.completion") EXCEPT
                             !.sub = IF s.sel.hasTool THEN "tool_calls" ELSE "content",
                             !.unit = IF s.sel.hasTool THEN ArgsStr(s) ELSE s.sel.content,
                             !.fin = IF s.sel.hasTool THEN "tool_calls" ELSE "stop"],
                         PromptTokens(s), CompletionTokens(s),
                         PromptTokens(s) + CompletionTokens(s))>>)
        EXCEPT !.pc = "done"]

\* the usage totals on the final chunk of a tool call as well
OpenAIFinishUsageAlways(s) ==
    [Emit(s, <<WithUsage([Frame(s, "finish") EXCEPT
                             !.fin = IF s.sel.hasTool THEN "tool_calls" ELSE "stop"],
                         PromptTokens(s), CompletionTokens(s),
                         PromptTokens(s) + CompletionTokens(s)),
               Frame(s, "[DONE]"),
               End(s, "")>>)
        EXCEPT !.pc = "done"]

\* the final chunk and data: [DONE] with the response left open
OpenAIFinishLeftOpen(s) ==
    [Emit(s, <<IF s.sel.hasTool THEN [Frame(s, "finish") EXCEPT !.fin = "tool_calls"]
               ELSE WithUsage([Frame(s, "finish") EXCEPT !.fin = "stop"],
                              PromptTokens(s), CompletionTokens(s),
                              PromptTokens(s) + CompletionTokens(s)),
               Frame(s, "[DONE]")>>)
        EXCEPT !.pc = "open"]

\* the final chunk, data: [DONE] and res.end()
OpenAIFinish(s) ==
    [Emit(s, <<IF s.sel.hasTool THEN [Frame(s, "finish") EXCEPT !.fin = "tool_calls"]
               ELSE WithUsage([Frame(s, "finish") EXCEPT !.fin = "stop"],
                              PromptTokens(s), CompletionTokens(s),
                              PromptTokens(s) + CompletionTokens(s)),
               Frame(s, "[DONE]"),
               End(s, "")>>)
        EXCEPT !.pc = "done"]

\* the head of either for loop: sleep before the next unit, or leave the loop
OpenAINext(s) ==
    IF s.i < Len(s.units) THEN [Emit(s, <<Sleep(s, "unit")>>) EXCEPT !.pc = "unit_wait"]
    ELSE OpenAIFinish(s)

\* the first-token sleep entered ahead of the role chunk
OpenAIStartSleepFirst(s) ==
    [Emit(s, <<writeHead(s, 200, {"content-type", "x-request-id"}),
               Sleep(s, "first"),
               [Frame(s, "role") EXCEPT !.sub = "assistant"]>>)
        EXCEPT !.pc = "first_wait"]

\* sendStreaming up to its first await
OpenAIStart(s) ==
    [Emit(s, <<writeHead(s, 200, {"content-type", "x-request-id"}),
               [Frame(s, "role") EXCEPT !.sub = "assistant"],
               Sleep(s, "first")>>)
        EXCEPT !.pc = "first_wait"]

\* from the end of the first-token sleep to the next await
OpenAIFirstWake(s) ==
    IF s.sel.hasTool
    THEN OpenAINext([Emit(s, <<[Frame(s, "tool_header") EXCEPT
                                   !.sub = tool_calls_toolCalls[s.sel.toolIdx].name]>>)
                        EXCEPT !.loop = "args",
                               !.units = chunkString(ArgsStr(s), OpenAIChunkSize),
                               !.i = 0])
    ELSE OpenAINext([s EXCEPT !.loop = "text", !.units = tokenize(s.sel.content), !.i = 0])

\* a text loop that writes no chunk for a token of whitespace
OpenAIUnitWakeSkipSpaces(s) ==
    IF s.loop = "text"
    THEN IF s.destroyed THEN [Emit(s, <<Check(s)>>) EXCEPT !.pc = "returned"]
         ELSE IF IsSpace(s.units[s.i + 1][1])
         THEN OpenAINext([Emit(s, <<Check(s)>>) EXCEPT !.i = @ + 1])
         ELSE OpenAINext([Emit(s, <<Check(s),
                                    [Frame(s, "content") EXCEPT !.unit = s.units[s.i + 1]]>>)
                             EXCEPT !.i = @ + 1])
    ELSE OpenAINext([Emit(s, <<[Frame(s, "tool_args") EXCEPT !.unit = s.units[s.i + 1]]>>)
                        EXCEPT !.i = @ + 1])

\* from the end of a per-token sleep to the next await: the text loop polls
\* res.destroyed, the argument loop does not
OpenAIUnitWake(s) ==
    IF s.loop = "text"
    THEN IF s.destroyed THEN [Emit(s, <<Check(s)>>) EXCEPT !.pc = "returned"]
         ELSE OpenAINext([Emit(s, <<Check(s),
                                    [Frame(s, "content") EXCEPT !.unit = s.units[s.i + 1]]>>)
                             EXCEPT !.i = @ + 1])
    ELSE OpenAINext([Emit(s, <<[Frame(s, "tool_args") EXCEPT !.unit = s.units[s.i + 1]]>>)
                        EXCEPT !.i = @ + 1])

----------------------------------------------------------------------------
(* providers/anthropic.js *)

AnthropicChunkSize == 12

\* the tool_use block pushed ahead of the text block
AnthropicSendNonStreamingToolFirst(s) ==
    [Emit(s, <<writeHead(s, 200, {"content-type"}),
               WithUsage([End(s, "message") EXCEPT
                             !.sub = IF s.sel.hasTool THEN "tool_use,text" ELSE "text",
                             !.unit = s.sel.content,
                             !.fin = IF s.sel.hasTool THEN "tool_use" ELSE "end_turn"],
                         PromptTokens(s), CompletionTokens(s), -1)>>)
        EXCEPT !.pc = "done"]

\* sendNonStreaming: the document's content blocks (sub, in order), the text
\* of the text block (unit), stop_reason (fin) and usage
AnthropicSendNonStreaming(s) ==
    [Emit(s, <<writeHead(s, 200, {"content-type"}),
               WithUsage([End(s, "message") EXCEPT
                             !.sub = IF s.sel.hasTool THEN "text,tool_use" ELSE "text",
                             !.unit = s.sel.content,
                             !.fin = IF s.sel.hasTool THEN "tool_use" ELSE "end_turn"],
                         PromptTokens(s), CompletionTokens(s), -1)>>)
        EXCEPT !.pc = "done"]

\* stop_reason end_turn whatever was sent
AnthropicFinishEndTurn(s) ==
    [Emit(s, <<WithUsage([Frame(s, "message_delta") EXCEPT !.fin = "end_turn"],
                         -1, CompletionTokens(s), -1),
               Frame(s, "message_stop"),
               End(s, "")>>)
        EXCEPT !.pc = "done"]

\* message_delta, message_stop and res.end()
AnthropicFinish(s) ==
    [Emit(s, <<WithUsage([Frame(s, "message_delta") EXCEPT
                             !.fin = IF s.sel.hasTool THEN "tool_use" ELSE "end_turn"],
                         -1, CompletionTokens(s), -1),
               Frame(s, "message_stop"),
               End(s, "")>>)
        EXCEPT !.pc = "done"]

\* the head of the tool-input loop, and what follows the loop
AnthropicArgsNext(s) ==
    IF s.i < Len(s.units) THEN [Emit(s, <<Sleep(s, "unit")>>) EXCEPT !.pc = "unit_wait"]
    ELSE AnthropicFinish(Emit(s, <<[Frame(s, "content_block_stop") EXCEPT !.block = 1]>>))

\* the tool_use block opened before the text block is closed
AnthropicTextNextLateStop(s) ==
    IF s.i < Len(s.units) THEN [Emit(s, <<Sleep(s, "unit")>>) EXCEPT !.pc = "unit_wait"]
    ELSE IF s.sel.hasTool
    THEN AnthropicArgsNext(
             [Emit(s, <<[Frame(s, "content_block_start") EXCEPT
                            !.block = 1, !.sub = "tool_use",
                            !.name = tool_calls_toolCalls[s.sel.toolIdx].name],
                        [Frame(s, "content_block_stop") EXCEPT !.block = 0]>>)
                 EXCEPT !.loop = "args",
                        !.units = chunkString(ArgsStr(s), AnthropicChunkSize),
                        !.i = 0])
    ELSE AnthropicFinish(Emit(s, <<[Frame(s, "content_block_stop") EXCEPT !.block = 0]>>))

\* the head of a text loop, and what follows the loop in its branch
AnthropicTextNext(s) ==
    IF s.i < Len(s.units) THEN [Emit(s, <<Sleep(s, "unit")>>) EXCEPT !.pc = "unit_wait"]
    ELSE IF s.sel.hasTool
    THEN AnthropicArgsNext(
             [Emit(s, <<[Frame(s, "content_block_stop") EXCEPT !.block = 0],
                        [Frame(s, "content_block_start") EXCEPT
                            !.block = 1, !.sub = "tool_use",
                            !.name = tool_calls_toolCalls[s.sel.toolIdx].name]>>)
                 EXCEPT !.loop = "args",
                        !.units = chunkString(ArgsStr(s), AnthropicChunkSize),
                        !.i = 0])
    ELSE AnthropicFinish(Emit(s, <<[Frame(s, "content_block_stop") EXCEPT !.block = 0]>>))

\* message_start with the final output count
AnthropicStartOutputCounted(s) ==
    [Emit(s, <<writeHead(s, 200, {"content-type", "x-request-id"}),
               WithUsage(Frame(s, "message_start"), PromptTokens(s),
                         CompletionTokens(s), -1),
               Sleep(s, "first")>>)
        EXCEPT !.pc = "first_wait"]

\* sendStreaming up to its first await
AnthropicStart(s) ==
    [Emit(s, <<writeHead(s, 200, {"content-type", "x-request-id"}),
               WithUsage(Frame(s, "message_start"), PromptTokens(s), 0, -1),
               Sleep(s, "first")>>)
        EXCEPT !.pc = "first_wait"]

\* both branches open text block 0 and enter a text loop
AnthropicFirstWake(s) ==
    AnthropicTextNext(
        [Emit(s, <<[Frame(s, "content_block_start") EXCEPT !.block = 0, !.sub = "text"]>>)
            EXCEPT !.loop = "text", !.units = tokenize(s.sel.content), !.i = 0])

\* every loop polls res.destroyed after its sleep
AnthropicUnitWake(s) ==
    IF s.destroyed THEN [Emit(s, <<Check(s)>>) EXCEPT !.pc = "returned"]
    ELSE IF s.loop = "text"
    THEN AnthropicTextNext(
             [Emit(s, <<Check(s),
                        [Frame(s, "content_block_delta") EXCEPT
                            !.block = 0, !.sub = "text_delta", !.unit = s.units[s.i + 1]]>>)
                 EXCEPT !.i = @ + 1])
    ELSE AnthropicArgsNext(
             [Emit(s, <<Check(s),
                        [Frame(s, "content_block_delta") EXCEPT
                            !.block = 1, !.sub = "input_json_delta",
                            !.unit = s.units[s.i + 1]]>>)
                 EXCEPT !.i = @ + 1])

----------------------------------------------------------------------------
(* providers/gemini.js *)

GeminiSendNonStreaming(s) ==
    [Emit(s, <<writeHead(s, 200, {"content-type"}),
               WithUsage([End(s, "candidates") EXCEPT
                             !.sub = IF s.sel.hasTool THEN "functionCall" ELSE "text",
                             !.name = IF s.sel.hasTool
                                      THEN tool_calls_toolCalls[s.sel.toolIdx].name ELSE "",
                             !.unit = IF s.sel.hasTool THEN ArgsStr(s) ELSE s.sel.content,
                             !.fin = IF s.sel.hasTool THEN "TOOL_CALLS" ELSE "STOP",
                             !.safety = TRUE],
                         PromptTokens(s), CompletionTokens(s),
                         PromptTokens(s) + CompletionTokens(s))>>)
        EXCEPT !.pc = "done"]

\* every frame is marked as the last one
GeminiIsLastAlways(i, n) == TRUE

\* the frame before the last one is marked as well
GeminiIsLastEarly(i, n) == i >= n - 2

\* const isLast = i === tokens.length - 1, for the 0-based loop index i
GeminiIsLast(i, n) == i = n - 1

GeminiNext(s) ==
    IF s.i < Len(s.units) THEN [Emit(s, <<Sleep(s, "unit")>>) EXCEPT !.pc = "unit_wait"]
    ELSE [Emit(s, <<End(s, "")>>) EXCEPT !.pc = "done"]

GeminiStart(s) ==
    [Emit(s, <<writeHead(s, 200, {"content-type"}), Sleep(s, "first")>>)
        EXCEPT !.pc = "first_wait"]

\* the text of a tool call streamed token by token like any text
GeminiFirstWakeTokenized(s) ==
    GeminiNext([s EXCEPT !.loop = "text", !.units = tokenize(s.sel.content), !.i = 0])

\* a tool call is one frame and res.end(); text enters the token loop
GeminiFirstWake(s) ==
    IF s.sel.hasTool
    THEN [Emit(s, <<WithUsage([Frame(s, "candidates") EXCEPT
                                  !.sub = "functionCall",
                                  !.name = tool_calls_toolCalls[s.sel.toolIdx].name,
                                  !.unit = ArgsStr(s),
                                  !.fin = "TOOL_CALLS", !.safety = TRUE],
                              PromptTokens(s), CompletionTokens(s),
                              PromptTokens(s) + CompletionTokens(s)),
                    End(s, "")>>)
             EXCEPT !.pc = "done"]
    ELSE GeminiNext([s EXCEPT !.loop = "text", !.units = tokenize(s.sel.content), !.i = 0])

\* a loop that steps over every other token
GeminiUnitWakeSkipping(s) ==
    IF s.destroyed THEN [Emit(s, <<Check(s)>>) EXCEPT !.pc = "returned"]
    ELSE GeminiNext(
             [Emit(s, <<Check(s),
                        [Frame(s, "candidates") EXCEPT
                            !.sub = "text", !.unit = s.units[s.i + 1]]>>)
                 EXCEPT !.i = @ + 2])

GeminiUnitWake(s) ==
    IF s.destroyed THEN [Emit(s, <<Check(s)>>) EXCEPT !.pc = "returned"]
    ELSE GeminiNext(
             [Emit(s, <<Check(s),
                        IF GeminiIsLast(s.i, Len(s.units))
                        THEN WithUsage([Frame(s, "candidates") EXCEPT
                                           !.sub = "text", !.unit = s.units[s.i + 1],
                                           !.fin = "STOP", !.safety = TRUE],
                                       PromptTokens(s), CompletionTokens(s),
                                       PromptTokens(s) + CompletionTokens(s))
                        ELSE [Frame(s, "candidates") EXCEPT
                                 !.sub = "text", !.unit = s.units[s.i + 1]]>>)
                 EXCEPT !.i = @ + 1])

----------------------------------------------------------------------------
(* server.js: createNullModelServer *)

GenPath == "/v1beta/models/m:generateContent"

StreamPath == "/v1beta/models/m:streamGenerateContent"

Methods == {"OPTIONS", "GET", "POST"}

MetaPaths == {"/health", "/personas", "/config"}

Paths == MetaPaths \cup {"/v1/chat/completions", "/v1/messages", GenPath, StreamPath, "/nope"}

\* values of body._persona: absent, catalog names, a name the catalog lacks, and a
\* name every object inherits
Hints == {"", "no_such_persona", "constructor"} \cup PersonaNames

EmptyBody == [stream |-> FALSE, persona |-> "", tools |-> FALSE, messages |-> FALSE]

Bodies == [stream : BOOLEAN, persona : Hints, tools : BOOLEAN, messages : BOOLEAN]

\* the requests a client can send; fields the code never reads for a request
\* are held at one value.  bodyOk: the body is empty or parses as JSON;
\* isNull: it parses to null, which has no properties to read
Requests ==
    {r \in [method : Methods, path : Paths, bodyOk : BOOLEAN, isNull : BOOLEAN,
            body : Bodies] :
        /\ (r.method # "POST" \/ r.path \in MetaPaths) =>
              (r.bodyOk /\ ~r.isNull /\ r.body = EmptyBody)
        /\ (~r.bodyOk \/ r.path = "/nope") => (~r.isNull /\ r.body = EmptyBody)
        /\ r.isNull => r.body = EmptyBody
        /\ r.path \in {GenPath, StreamPath} => ~r.body.stream}

\* the if / else-if chain on `path`; "" for no match
ProviderOf(path) ==
    IF path = "/v1/chat/completions" THEN "openai"
    ELSE IF path = "/v1/messages" THEN "anthropic"
    ELSE IF path \in {GenPath, StreamPath} THEN "gemini"
    ELSE ""

\* body.stream ?? false for OpenAI and Anthropic; providerMeta.stream for Gemini
StreamOf(s) ==
    IF s.provider = "gemini" THEN s.req.path = StreamPath ELSE s.req.body.stream

\* only the first-token base is multiplied
slowConfigFirstOnly(cfg) ==
    [cfg EXCEPT !.latency.firstToken = @ * cfg.chaos.slowdownMultiplier]

\* { ...config, latency: { ...config.latency, firstToken: .., perToken: .. } }
slowConfig(cfg) ==
    [cfg EXCEPT !.latency.firstToken = @ * cfg.chaos.slowdownMultiplier,
                !.latency.perToken = @ * cfg.chaos.slowdownMultiplier]

\* the provider handler from sendNonStreaming / sendStreaming on, up to the
\* first await
Send(s) ==
    CASE s.provider = "openai" ->
            IF s.stream THEN OpenAIStart(s) ELSE OpenAISendNonStreaming(s)
      [] s.provider = "anthropic" ->
            IF s.stream THEN AnthropicStart(s) ELSE AnthropicSendNonStreaming(s)
      [] s.provider = "gemini" ->
            IF s.stream THEN GeminiStart(s) ELSE GeminiSendNonStreaming(s)

\* routeToProvider and the head of the provider handler.  The states the
\* handler can be in at its first await (or at its return), one per random
\* content index.  A throw inside the async handler (body.model of a null
\* body, p.responses.length of an inherited member) rejects the promise that
\* the server returns without awaiting it, so the catch block does not run.
routeToProvider(s, cfg) ==
    LET persona == resolvePersona(s.req.body, cfg)
    IN  IF s.req.isNull \/ SelectionThrows(persona, s.req.body)
        THEN {[Emit(s, <<[E0 EXCEPT !.ev = "throw", !.tag = "TypeError"]>>)
                  EXCEPT !.pc = "rejected", !.hcfg = cfg]}
        ELSE {Send([Emit(s, <<[E0 EXCEPT !.ev = "select", !.tag = persona.name,
                                         !.sub = IF x.hasTool THEN "tool" ELSE "text"]>>)
                       EXCEPT !.hcfg = cfg, !.sel = x, !.stream = StreamOf(s)]) :
                 x \in SelectContent(persona, s.req.body)}

\* res.writeHead(chaosResponse.status, {...}); res.end(JSON.stringify(chaosResponse.body))
SendChaosResponse(s, chaosType) ==
    LET r == getChaosResponse(chaosType, s.provider)
    IN  [Emit(s, <<writeHead(s, r.status, {"content-type"} \cup r.headers),
                   [End(s, "chaos_error") EXCEPT !.sub = r.body.schema, !.fin = r.body.kind]>>)
            EXCEPT !.pc = "done"]

\* a comparison that lets every kind but rate_limit take the slowdown branch
IsSlowdownLoose(chaosType) == chaosType # "rate_limit"

\* chaosType === 'slowdown'
IsSlowdown(chaosType) == chaosType = "slowdown"

\* the chaos check of the request handler, for the draw `roll`
ChaosCheck(s0, cfg, roll) ==
    LET chaosType == shouldTriggerChaos(cfg, roll)
        s == [Emit(s0, <<[E0 EXCEPT !.ev = "decide", !.tag = chaosType]>>)
                 EXCEPT !.chaosType = chaosType, !.draws = @ + 1]
    IN  IF chaosType # "none"
        THEN IF IsSlowdown(chaosType) THEN routeToProvider(s, slowConfig(cfg))
             ELSE {SendChaosResponse(s, chaosType)}
        ELSE routeToProvider(s, cfg)

\* the request handler up to `await parseBody(req)`
Accept(c) ==
    /\ conn[c].pc = "idle"
    /\ \E r \in Requests :
        LET s == [conn[c] EXCEPT !.req = r]
        IN  conn' = [conn EXCEPT ![c] =
                IF r.method = "OPTIONS"
                THEN [Emit(s, <<writeHead(s, 204, {}), End(s, "")>>) EXCEPT !.pc = "done"]
                ELSE IF r.path = "/health" THEN sendJSON(s, 200, "health")
                ELSE IF r.path = "/personas" THEN sendJSON(s, 200, "personas")
                ELSE IF r.path = "/config" THEN sendJSON(s, 200, "config")
                ELSE IF r.method # "POST" THEN sendJSON(s, 405, "method_not_allowed")
                ELSE [s EXCEPT !.pc = "body_wait"]]
    /\ UNCHANGED <<config, fnIn, fnOut>>

\* a body that does not parse is taken for an empty object
BodyParsedLenient(c) ==
    /\ conn[c].pc = "body_wait"
    /\ \E roll \in 0 .. RateScale - 1 :
        LET s0 == conn[c]
            s == [s0 EXCEPT !.provider = ProviderOf(s0.req.path)]
        IN  \E n \in (IF s.provider = "" THEN {sendJSON(s, 404, "not_found")}
                      ELSE ChaosCheck(s, config, roll)) :
                conn' = [conn EXCEPT ![c] = n]
    /\ UNCHANGED <<config, fnIn, fnOut>>

\* the slowdown branch scales the bases of the server's own configuration and
\* hands that to the handler
BodyParsedAdjustsShared(c) ==
    /\ conn[c].pc = "body_wait"
    /\ \E roll \in 0 .. RateScale - 1 :
        LET s0 == conn[c]
            s == [s0 EXCEPT !.provider = ProviderOf(s0.req.path)]
            decided == s0.req.bodyOk /\ s.provider # ""
            slow == decided /\ IsSlowdown(shouldTriggerChaos(config, roll))
        IN  /\ \E n \in (IF ~s0.req.bodyOk THEN {sendJSON(s0, 500, "internal_error")}
                         ELSE IF s.provider = "" THEN {sendJSON(s, 404, "not_found")}
                         ELSE ChaosCheck(s, config, roll)) :
                   conn' = [conn EXCEPT ![c] = n]
            /\ config' = IF slow THEN slowConfig(config) ELSE config
    /\ UNCHANGED <<fnIn, fnOut>>

\* the request handler from the settlement of parseBody to the first await of
\* the provider handler
BodyParsed(c) ==
    /\ conn[c].pc = "body_wait"
    /\ \E roll \in 0 .. RateScale - 1 :
        LET s0 == conn[c]
            s == [s0 EXCEPT !.provider = ProviderOf(s0.req.path)]
        IN  \E n \in (IF ~s0.req.bodyOk THEN {sendJSON(s0, 500, "internal_error")}
                      ELSE IF s.provider = "" THEN {sendJSON(s, 404, "not_found")}
                      ELSE ChaosCheck(s, config, roll)) :
                conn' = [conn EXCEPT ![c] = n]
    /\ UNCHANGED <<config, fnIn, fnOut>>

\* the first-token timer fires
FirstWake(c) ==
    /\ conn[c].pc = "first_wait"
    /\ conn' = [conn EXCEPT ![c] =
            CASE conn[c].provider = "openai" -> OpenAIFirstWake(conn[c])
              [] conn[c].provider = "anthropic" -> AnthropicFirstWake(conn[c])
              [] conn[c].provider = "gemini" -> GeminiFirstWake(conn[c])]
    /\ UNCHANGED <<config, fnIn, fnOut>>

\* a per-token timer fires
UnitWake(c) ==
    /\ conn[c].pc = "unit_wait"
    /\ conn' = [conn EXCEPT ![c] =
            CASE conn[c].provider = "openai" -> OpenAIUnitWake(conn[c])
              [] conn[c].provider = "anthropic" -> AnthropicUnitWake(conn[c])
              [] conn[c].provider = "gemini" -> GeminiUnitWake(conn[c])]
    /\ UNCHANGED <<config, fnIn, fnOut>>

\* one peer going away marks every open response as destroyed
DisconnectAll(c) ==
    /\ conn[c].pc \in {"first_wait", "unit_wait"}
    /\ ~conn[c].destroyed
    /\ conn' = [d \in DOMAIN conn |->
                   IF conn[d].pc \in {"first_wait", "unit_wait"} /\ ~conn[d].destroyed
                   THEN [conn[d] EXCEPT !.destroyed = TRUE,
                                        !.destroyedAt = Len(conn[d].trace)]
                   ELSE conn[d]]
    /\ UNCHANGED <<config, fnIn, fnOut>>

\* the peer closes the connection while the stream is suspended in a sleep:
\* res.destroyed becomes true
Disconnect(c) ==
    /\ conn[c].pc \in {"first_wait", "unit_wait"}
    /\ ~conn[c].destroyed
    /\ conn' = [conn EXCEPT ![c].destroyed = TRUE,
                            ![c].destroyedAt = Len(conn[c].trace)]
    /\ UNCHANGED <<config, fnIn, fnOut>>

----------------------------------------------------------------------------
(* Calls of the pure functions on enumerated arguments *)

Alphabet == {"a", "7", "_", " ", "\n", ".", "-"}

Strings(n) == UNION {[1 .. k -> Alphabet] : k \in 0 .. n}

KindArgs == ErrorKinds \cup {"slowdown", "none", ""} \cup ObjectProtoKeys

ProviderArgs == Providers \cup {"cohere", ""} \cup ObjectProtoKeys

FnIdle ==
    [fn |-> "none", text |-> <<>>, cfg |-> NoConfig, roll |-> 0, type |-> "",
     provider |-> ""]

FnPending ==
    [done |-> FALSE, tokens |-> <<>>, outcome |-> "", payload |-> Undefined, delay |-> 0]

\* latency bases (the defaults, the defaults under slowdown, small ones) and
\* variances in percent (0.3 the default; above 1.0 the jitter can be negative)
LatencyBases == {0, 1, 4, PerTokenDefault, 49, FirstTokenDefault,
                 FirstTokenDefault * SlowdownMultiplierDefault}

Variances == {0, VarianceDefault, 100, 150}

FnInputs ==
    {[FnIdle EXCEPT !.fn = "tokenize", !.text = t] : t \in Strings(MaxLen)}
    \cup {[FnIdle EXCEPT !.fn = "shouldTriggerChaos",
                         !.cfg = MakeConfig(e, r, "balanced"), !.roll = x] :
             e \in BOOLEAN, r \in (0 .. RateScale) \X (0 .. RateScale) \X (0 .. RateScale),
             x \in 0 .. RateScale - 1}
    \cup {[FnIdle EXCEPT !.fn = "getChaosResponse", !.type = k, !.provider = p] :
             k \in KindArgs, p \in ProviderArgs}
    \cup {[FnIdle EXCEPT !.fn = f, !.roll = d,
                         !.cfg = [NoConfig EXCEPT !.latency.firstToken = b,
                                                  !.latency.perToken = b,
                                                  !.latency.variance = v]] :
             f \in {"getTokenDelay", "getFirstTokenDelay"}, b \in LatencyBases,
             v \in Variances, d \in 0 .. JitterScale - 1}

CallTokenize ==
    /\ fnIn.fn = "tokenize" /\ ~fnOut.done
    /\ fnOut' = [fnOut EXCEPT !.done = TRUE, !.tokens = tokenize(fnIn.text)]
    /\ UNCHANGED <<config, conn, fnIn>>

CallShouldTriggerChaos ==
    /\ fnIn.fn = "shouldTriggerChaos" /\ ~fnOut.done
    /\ fnOut' = [fnOut EXCEPT !.done = TRUE,
                              !.outcome = shouldTriggerChaos(fnIn.cfg, fnIn.roll)]
    /\ UNCHANGED <<config, conn, fnIn>>

CallGetChaosResponse ==
    /\ fnIn.fn = "getChaosResponse" /\ ~fnOut.done
    /\ fnOut' = [fnOut EXCEPT !.done = TRUE,
                              !.payload = getChaosResponse(fnIn.type, fnIn.provider)]
    /\ UNCHANGED <<config, conn, fnIn>>

CallGetTokenDelay ==
    /\ fnIn.fn = "getTokenDelay" /\ ~fnOut.done
    /\ fnOut' = [fnOut EXCEPT !.done = TRUE, !.delay = getTokenDelay(fnIn.cfg, fnIn.roll)]
    /\ UNCHANGED <<config, conn, fnIn>>

CallGetFirstTokenDelay ==
    /\ fnIn.fn = "getFirstTokenDelay" /\ ~fnOut.done
    /\ fnOut' = [fnOut EXCEPT !.done = TRUE,
                              !.delay = getFirstTokenDelay(fnIn.cfg, fnIn.roll)]
    /\ UNCHANGED <<config, conn, fnIn>>

----------------------------------------------------------------------------
(* Specifications *)

Conns == {1}

Init ==
    /\ config \in Configs
    /\ conn = [c \in Conns |-> IdleConn]
    /\ fnIn = FnIdle
    /\ fnOut = FnPending

Next ==
    \/ \E c \in DOMAIN conn : Accept(c)
    \/ \E c \in DOMAIN conn : BodyParsed(c)
    \/ \E c \in DOMAIN conn : FirstWake(c)
    \/ \E c \in DOMAIN conn : UnitWake(c)
    \/ \E c \in DOMAIN conn : Disconnect(c)

Spec == Init /\ [][Next]_vars

FnInit ==
    /\ config = NoConfig
    /\ conn = <<>>
    /\ fnIn \in FnInputs
    /\ fnOut = FnPending

FnNext ==
    \/ CallTokenize
    \/ CallShouldTriggerChaos
    \/ CallGetChaosResponse
    \/ CallGetTokenDelay
    \/ CallGetFirstTokenDelay

SpecFn == FnInit /\ [][FnNext]_vars

\* a server on which every fault outcome can be drawn
LiveConfigs ==
    {cfg \in Configs :
        /\ cfg.chaos.enabled
        /\ cfg.chaos.rateLimitRate = 1 /\ cfg.chaos.errorRate = 1
        /\ cfg.chaos.slowdownRate = 1}

InitLive == Init /\ config \in LiveConfigs

\* FirstWake(c) can take a step exactly while the first-token timer of c is
\* pending
FirstTimerPending(c) == conn[c].pc = "first_wait"

\* every timer that a stream waits on fires: setTimeout calls back after its
\* delay, whatever the peer does.  Weak fairness of UnitWake(c) and of
\* FirstWake(c), the latter written out with FirstTimerPending(c) as the
\* condition under which FirstWake(c) is enabled.
SpecLive ==
    /\ InitLive /\ [][Next]_vars
    /\ \A c \in Conns :
          /\ WF_vars(UnitWake(c))
          /\ []<>(~FirstTimerPending(c)) \/ []<><<FirstWake(c)>>_vars

----------------------------------------------------------------------------
(* two requests served by one server at the same time *)

ConcurrentConns == {1, 2}

\* every fault outcome can be drawn; the shipped latency settings
ConcurrentConfigs ==
    {cfg \in Configs :
        /\ cfg.chaos.enabled
        /\ cfg.latency.firstToken = FirstTokenDefault
        /\ cfg.chaos.rateLimitRate = 1 /\ cfg.chaos.errorRate = 1
        /\ cfg.chaos.slowdownRate = 1
        /\ cfg.defaults.persona = "balanced"}

\* two streaming requests and one that is answered in one piece, all with the
\* default persona
ConcurrentRequests ==
    {r \in Requests :
        /\ r.method = "POST" /\ r.bodyOk /\ ~r.isNull
        /\ r.body.persona = "" /\ ~r.body.tools /\ ~r.body.messages
        /\ \/ r.path = "/v1/chat/completions" /\ r.body.stream
           \/ r.path = "/v1/messages" /\ ~r.body.stream
           \/ r.path = StreamPath}

AcceptConcurrent(c) == Accept(c) /\ conn'[c].req \in ConcurrentRequests

InitConcurrent ==
    /\ config \in ConcurrentConfigs
    /\ conn = [c \in ConcurrentConns |-> IdleConn]
    /\ fnIn = FnIdle
    /\ fnOut = FnPending

NextConcurrent ==
    \/ \E c \in DOMAIN conn : AcceptConcurrent(c)
    \/ \E c \in DOMAIN conn : BodyParsed(c)
    \/ \E c \in DOMAIN conn : FirstWake(c)
    \/ \E c \in DOMAIN conn : UnitWake(c)
    \/ \E c \in DOMAIN conn : Disconnect(c)

SpecConcurrent == InitConcurrent /\ [][NextConcurrent]_vars

----------------------------------------------------------------------------
(* Properties *)

\* the frames written to a connection, in order
Writes(s) == SelectSeq(s.trace, LAMBDA e : e.ev = "write")

\* the positions of the entries of a history that satisfy Test
Positions(tr, Test(_)) == {i \in 1 .. Len(tr) : Test(tr[i])}

\* the frames that make up a provider's terminal sequence
IsTerminalFrame(provider, e) ==
    CASE provider = "openai" -> e.tag \in {"finish", "[DONE]"}
      [] provider = "anthropic" -> e.tag \in {"message_delta", "message_stop"}
      [] provider = "gemini" -> e.fin # ""

TerminalTags(provider) ==
    CASE provider = "openai" -> <<"finish", "[DONE]">>
      [] provider = "anthropic" -> <<"message_delta", "message_stop">>
      [] provider = "gemini" -> <<"candidates">>

\* a connection whose handler entered sendStreaming
Streaming(s) == s.stream /\ s.pc \in {"first_wait", "unit_wait", "done", "returned"}

TerminatedOnce(s) ==
    LET w == Writes(s)
        k == Len(TerminalTags(s.provider))
        T == Positions(w, LAMBDA e : IsTerminalFrame(s.provider, e))
    IN  IF s.pc = "done"
        THEN /\ Len(w) >= k
             /\ T = (Len(w) - k + 1) .. Len(w)
             /\ \A j \in 1 .. k : w[Len(w) - k + j].tag = TerminalTags(s.provider)[j]
             /\ s.trace[Len(s.trace)].ev = "end"
             /\ Cardinality(Positions(s.trace, LAMBDA e : e.ev = "end")) = 1
        ELSE T = {} /\ Positions(s.trace, LAMBDA e : e.ev = "end") = {}

\* C1: a stream whose peer never disconnects writes its terminal sequence
\* (OpenAI: finish chunk, [DONE]; Anthropic: message_delta, message_stop;
\* Gemini: the one frame with a finishReason) exactly once, as its last
\* frames, then closes the response; until then no terminal frame is written.
C1_TerminalOnce ==
    \A c \in DOMAIN conn :
        (Streaming(conn[c]) /\ ~conn[c].destroyed) => TerminatedOnce(conn[c])

C1_Witness ==
    \E c \in DOMAIN conn :
        /\ Streaming(conn[c]) /\ ~conn[c].destroyed /\ conn[c].pc = "done"
        /\ conn[c].provider = "gemini" /\ ~conn[c].sel.hasTool
        /\ Len(Writes(conn[c])) >= 3

\* C2: when the peer closes the connection during a per-unit wait, the stream
\* writes no frame after that and its handler returns without an error.
C2_StopsAfterDisconnect ==
    \A c \in DOMAIN conn :
        LET s == conn[c]
        IN  (s.destroyed /\ s.trace[s.destroyedAt].tag = "unit") =>
                /\ \A i \in s.destroyedAt + 1 .. Len(s.trace) : s.trace[i].ev # "write"
                /\ s.pc # "rejected"

\* C3: every frame written after a suspension is preceded by a poll of
\* res.destroyed made after the most recent sleep, and no frame is written to
\* a destroyed connection.
C3_PolledBeforeEachWrite ==
    \A c \in DOMAIN conn :
        LET tr == conn[c].trace
        IN  \A i \in 1 .. Len(tr) :
                tr[i].ev = "write" =>
                    /\ tr[i].alive
                    /\ \A j \in 1 .. i - 1 :
                          tr[j].ev = "sleep" =>
                              \E k \in j + 1 .. i - 1 :
                                  tr[k].ev \in {"check", "sleep"}

RECURSIVE Concat(_)
Concat(ts) == IF ts = <<>> THEN <<>> ELSE Head(ts) \o Concat(Tail(ts))

\* C4: concatenating tokenize(text) in order gives back text, and the empty
\* string has no tokens.
C4_RoundTrip ==
    (fnIn.fn = "tokenize" /\ fnOut.done) =>
        /\ Concat(fnOut.tokens) = fnIn.text
        /\ (fnIn.text = <<>> => fnOut.tokens = <<>>)

C4_Witness ==
    /\ fnIn.fn = "tokenize" /\ fnOut.done
    /\ Len(fnIn.text) = MaxLen
    /\ Len(fnOut.tokens) = 3
    /\ \E i \in 1 .. MaxLen : ~IsSpace(fnIn.text[i]) /\ ~IsWord(fnIn.text[i])

WordRun(t) == t # <<>> /\ \A i \in 1 .. Len(t) : IsWord(t[i])

SpaceRun(t) == t # <<>> /\ \A i \in 1 .. Len(t) : IsSpace(t[i])

OtherChar(t) == Len(t) = 1 /\ ~IsWord(t[1]) /\ ~IsSpace(t[1])

\* C5: every token is a run of word characters, a run of whitespace, or one
\* character that is neither; runs are maximal, so no two adjacent tokens are
\* both word runs or both whitespace runs; no token is empty.
C5_TokenBoundaries ==
    (fnIn.fn = "tokenize" /\ fnOut.done) =>
        LET ts == fnOut.tokens
        IN  /\ \A i \in 1 .. Len(ts) : WordRun(ts[i]) \/ SpaceRun(ts[i]) \/ OtherChar(ts[i])
            /\ \A i \in 1 .. Len(ts) - 1 :
                  /\ ~(WordRun(ts[i]) /\ WordRun(ts[i + 1]))
                  /\ ~(SpaceRun(ts[i]) /\ SpaceRun(ts[i + 1]))

C5_Witness ==
    /\ fnIn.fn = "tokenize" /\ fnOut.done
    /\ \E i \in 1 .. Len(fnOut.tokens) : WordRun(fnOut.tokens[i]) /\ Len(fnOut.tokens[i]) >= 2
    /\ \E i \in 1 .. Len(fnOut.tokens) : SpaceRun(fnOut.tokens[i]) /\ Len(fnOut.tokens[i]) >= 2

\* a request that reached a provider endpoint: valid body, supported route
Routed(s) == s.provider # ""

\* C6: a routed request draws exactly one fault outcome, before the content is
\* resolved and before anything is written; after rate_limit or server_error
\* the response is the canned error document alone, and after none or
\* slowdown no canned error is sent.
C6_OneOutcomeFirst ==
    \A c \in DOMAIN conn :
        LET s == conn[c]
            tr == s.trace
        IN  Routed(s) =>
                /\ s.draws = 1
                /\ Positions(tr, LAMBDA e : e.ev = "decide") = {1}
                /\ tr[1].tag = s.chaosType
                /\ s.chaosType \in {"none", "rate_limit", "server_error", "slowdown"}
                /\ s.chaosType \in {"rate_limit", "server_error"} =>
                      /\ Len(tr) = 3
                      /\ tr[2].ev = "head" /\ tr[3].ev = "end" /\ tr[3].tag = "chaos_error"
                      /\ s.sel = NoSelection
                /\ s.chaosType \in {"none", "slowdown"} =>
                      /\ \A i \in 1 .. Len(tr) : tr[i].tag # "chaos_error"
                      /\ Len(tr) >= 2 /\ tr[2].ev \in {"select", "throw"}

C6_Witness ==
    \E c \in DOMAIN conn :
        /\ Routed(conn[c]) /\ conn[c].chaosType = "server_error" /\ conn[c].pc = "done"
        /\ conn[c].req.body.stream

\* C7: with chaos enabled one draw falls in exactly one of four cumulative
\* bands: rate_limit below rateLimitRate, then server_error, then slowdown,
\* and none from the sum of the three rates on.
C7_Bands ==
    (fnIn.fn = "shouldTriggerChaos" /\ fnOut.done /\ fnIn.cfg.chaos.enabled) =>
        LET r == fnIn.roll
            a == fnIn.cfg.chaos.rateLimitRate
            b == a + fnIn.cfg.chaos.errorRate
            d == b + fnIn.cfg.chaos.slowdownRate
        IN  /\ (fnOut.outcome = "rate_limit") <=> (r < a)
            /\ (fnOut.outcome = "server_error") <=> (a <= r /\ r < b)
            /\ (fnOut.outcome = "slowdown") <=> (b <= r /\ r < d)
            /\ (fnOut.outcome = "none") <=> (d <= r)

C7_Witness ==
    /\ fnIn.fn = "shouldTriggerChaos" /\ fnOut.done /\ fnIn.cfg.chaos.enabled
    /\ fnIn.cfg.chaos.rateLimitRate = 1 /\ fnIn.cfg.chaos.errorRate = 1
    /\ fnIn.cfg.chaos.slowdownRate = 1
    /\ fnIn.roll = 2 /\ fnOut.outcome = "slowdown"

\* C8: with chaos disabled every decision is none, whatever the draw and the
\* rates: no request gets a canned fault response and every handler runs
\* with the latency of the configuration.
C8_DisabledIsNone ==
    ~config.chaos.enabled =>
        \A c \in DOMAIN conn :
            LET s == conn[c]
            IN  /\ s.chaosType \in {"unset", "none"}
                /\ \A i \in 1 .. Len(s.trace) : s.trace[i].tag # "chaos_error"
                /\ s.hcfg \in {NoConfig, config}

C8_Witness ==
    /\ ~config.chaos.enabled
    /\ config.chaos.rateLimitRate = RateScale
    /\ \E c \in DOMAIN conn :
          /\ conn[c].chaosType = "none" /\ conn[c].pc = "done"
          /\ conn[c].hcfg = config /\ conn[c].sel # NoSelection

\* C9: with chaos enabled and rateLimitRate 1.0, every routed request is
\* answered with status 429, a retry-after header and a rate-limit body in the
\* error schema of its provider, and nothing else.
C9_AlwaysRateLimited ==
    (config.chaos.enabled /\ config.chaos.rateLimitRate = RateScale) =>
        \A c \in DOMAIN conn :
            LET s == conn[c]
                tr == s.trace
            IN  Routed(s) =>
                    /\ s.pc = "done" /\ Len(tr) = 3
                    /\ tr[1].ev = "decide" /\ tr[1].tag = "rate_limit"
                    /\ tr[2].ev = "head" /\ tr[2].code = 429
                    /\ "retry-after" \in tr[2].hdrs
                    /\ tr[3].ev = "end" /\ tr[3].tag = "chaos_error"
                    /\ tr[3].sub = s.provider /\ tr[3].fin = "rate_limit"

C9_Witness ==
    /\ config.chaos.enabled /\ config.chaos.rateLimitRate = RateScale
    /\ \E c \in DOMAIN conn :
          /\ conn[c].provider = "gemini" /\ conn[c].pc = "done"
          /\ conn[c].req.path = StreamPath

\* C10: getChaosResponse returns a payload with a status and a body for every
\* kind and provider: the pair's own payload when the pair is defined, the
\* provider's server-error payload for another kind, and the OpenAI
\* server-error payload for an unknown provider.
C10_TotalFallback ==
    (fnIn.fn = "getChaosResponse" /\ fnOut.done) =>
        /\ fnOut.payload.isPayload /\ fnOut.payload.status > 0
        /\ fnOut.payload =
              IF fnIn.provider \in Providers
              THEN IF fnIn.type \in ErrorKinds THEN ErrorPayload(fnIn.type, fnIn.provider)
                   ELSE ErrorPayload("server_error", fnIn.provider)
              ELSE ErrorPayload("server_error", "openai")

\* C11: for each of the three providers the fault payload has status 429 for
\* rate_limit, 500 for server_error, 400 for context_length and 408 for
\* timeout (504 for gemini), and it has a retry-after header exactly when the
\* kind is rate_limit.
C11_StatusAndRetryAfter ==
    (/\ fnIn.fn = "getChaosResponse" /\ fnOut.done
     /\ fnIn.type \in ErrorKinds /\ fnIn.provider \in Providers) =>
        /\ fnIn.type = "rate_limit" => fnOut.payload.status = 429
        /\ fnIn.type = "server_error" => fnOut.payload.status = 500
        /\ fnIn.type = "context_length" => fnOut.payload.status = 400
        /\ (fnIn.type = "timeout" /\ fnIn.provider # "gemini") => fnOut.payload.status = 408
        /\ (fnIn.type = "timeout" /\ fnIn.provider = "gemini") => fnOut.payload.status = 504
        /\ ("retry-after" \in fnOut.payload.headers) <=> (fnIn.type = "rate_limit")

C11_Witness ==
    /\ fnIn.fn = "getChaosResponse" /\ fnOut.done
    /\ fnIn.type = "timeout" /\ fnIn.provider = "gemini"
    /\ fnOut.payload.status = 504 /\ fnOut.payload.headers = {}

\* a connection's state with the marks of a slowdown decision replaced by
\* those of a none decision: the decision itself, the handler's configuration
\* and the latency bases of its sleeps
AsNone(s) ==
    [s EXCEPT !.chaosType = "none", !.hcfg = config,
              !.trace = [i \in DOMAIN s.trace |->
                  IF s.trace[i].ev = "decide" THEN [s.trace[i] EXCEPT !.tag = "none"]
                  ELSE IF s.trace[i].ev = "sleep"
                      THEN [s.trace[i] EXCEPT !.base =
                               IF s.trace[i].tag = "first" THEN config.latency.firstToken
                               ELSE config.latency.perToken]
                  ELSE s.trace[i]]]

\* the states of the request handler after a none decision on request state s
AfterNone(s) ==
    routeToProvider([Emit([s EXCEPT !.provider = ProviderOf(s.req.path)],
                          <<[E0 EXCEPT !.ev = "decide", !.tag = "none"]>>)
                        EXCEPT !.chaosType = "none", !.draws = @ + 1],
                    config)

\* the state of a suspended stream after its timer fired
AfterWake(s) ==
    CASE s.pc = "first_wait" /\ s.provider = "openai" -> OpenAIFirstWake(s)
      [] s.pc = "first_wait" /\ s.provider = "anthropic" -> AnthropicFirstWake(s)
      [] s.pc = "first_wait" /\ s.provider = "gemini" -> GeminiFirstWake(s)
      [] s.pc = "unit_wait" /\ s.provider = "openai" -> OpenAIUnitWake(s)
      [] s.pc = "unit_wait" /\ s.provider = "anthropic" -> AnthropicUnitWake(s)
      [] s.pc = "unit_wait" /\ s.provider = "gemini" -> GeminiUnitWake(s)

SlowdownStep(c) ==
    LET s == conn[c]
        t == conn'[c]
        m == config.chaos.slowdownMultiplier
    IN  (t.chaosType = "slowdown" /\ t # s) =>
            \* the handler runs with both bases multiplied and the rest of
            \* the configuration as it is
            /\ t.hcfg.latency.firstToken = config.latency.firstToken * m
            /\ t.hcfg.latency.perToken = config.latency.perToken * m
            /\ t.hcfg.latency.variance = config.latency.variance
            /\ t.hcfg.chaos = config.chaos /\ t.hcfg.defaults = config.defaults
            /\ \A i \in 1 .. Len(t.trace) :
                  /\ (t.trace[i].ev = "sleep" /\ t.trace[i].tag = "first") =>
                        t.trace[i].base = config.latency.firstToken * m
                  /\ (t.trace[i].ev = "sleep" /\ t.trace[i].tag = "unit") =>
                        t.trace[i].base = config.latency.perToken * m
                  /\ t.trace[i].ev = "head" => t.trace[i].code = 200
                  /\ t.trace[i].tag # "chaos_error"
            \* and the step is the step of a request decided none
            /\ s.pc = "body_wait" => AsNone(t) \in AfterNone(s)
            /\ (s.pc \in {"first_wait", "unit_wait"} /\ t.destroyed = s.destroyed) =>
                  AsNone(t) = AfterWake(AsNone(s))
            /\ (s.pc \in {"first_wait", "unit_wait"} /\ t.destroyed # s.destroyed) =>
                  AsNone(t) = [AsNone(s) EXCEPT !.destroyed = TRUE,
                                                !.destroyedAt = Len(s.trace)]

\* C12: a request decided slowdown is served by its provider handler with the
\* first-token and the per-token base multiplied by slowdownMultiplier and the
\* variance unchanged; each of its steps is the step a request decided none
\* takes (same content resolution, same status 200, same frames), the latency
\* bases apart.
C12_SlowdownComposes == [][\A c \in DOMAIN conn : SlowdownStep(c)]_vars

C12_Witness ==
    \E c \in DOMAIN conn :
        /\ conn[c].chaosType = "slowdown" /\ conn[c].pc = "done" /\ conn[c].stream
        /\ config.chaos.slowdownMultiplier = 2
        /\ \E i \in 1 .. Len(conn[c].trace) :
              conn[c].trace[i].ev = "sleep" /\ conn[c].trace[i].base = 8
        /\ conn[c].sel.hasTool

\* whether `delay` is max(floor, p) for some p between round(base * (1 - v))
\* and round(base * (1 + v)); v in percent, base not negative
DelayWithin(delay, floor, base, v) ==
    \E p \in Round(base * (100 - v), 100) .. Round(base * (100 + v), 100) :
        delay = Max(floor, p)

\* C13: for every base, variance and random draw getFirstTokenDelay returns at
\* least 50 and getTokenDelay at least 5, and the value is the minimum or a
\* rounded base * j with j between 1 - variance and 1 + variance.
C13_DelayBounds ==
    /\ (fnIn.fn = "getTokenDelay" /\ fnOut.done) =>
          /\ fnOut.delay >= 5
          /\ DelayWithin(fnOut.delay, 5, fnIn.cfg.latency.perToken,
                         fnIn.cfg.latency.variance)
    /\ (fnIn.fn = "getFirstTokenDelay" /\ fnOut.done) =>
          /\ fnOut.delay >= 50
          /\ DelayWithin(fnOut.delay, 50, fnIn.cfg.latency.firstToken,
                         fnIn.cfg.latency.variance)

C13_Witness ==
    /\ fnIn.fn = "getTokenDelay" /\ fnOut.done
    /\ fnIn.cfg.latency.perToken = 4 /\ fnIn.cfg.latency.variance = 150
    /\ fnIn.roll = 0 /\ fnOut.delay = 5

\* the persona hint of a request: body._persona, else the configured default
HintOf(s) == IF s.req.body.persona # "" THEN s.req.body.persona ELSE config.defaults.persona

\* a request that was handed to its provider handler
Handled(s) == Routed(s) /\ s.chaosType \in {"none", "slowdown"}

\* C14: whatever the persona hint, a request handed to a provider handler is
\* never failed by persona resolution: the handler does not throw, and its
\* content comes from the named catalog persona, or from the fallback persona
\* when the catalog has no entry of that name.
C14_PersonaNeverFails ==
    \A c \in DOMAIN conn :
        LET s == conn[c]
            p == IF HintOf(s) \in PersonaNames THEN personas[HintOf(s)] ELSE personas.balanced
        IN  Handled(s) =>
                /\ s.pc # "rejected"
                /\ \A i \in 1 .. Len(s.trace) : s.trace[i].ev # "throw"
                /\ \E i \in 1 .. Len(s.trace) :
                      s.trace[i].ev = "select" /\ s.trace[i].tag = p.name
                /\ \E i \in 1 .. Len(s.trace) :
                      s.trace[i].ev = "head" /\ s.trace[i].code = 200

\* the content resolution of a handler, as its history records it
Selected(s) == \E i \in 1 .. Len(s.trace) : s.trace[i].ev = "select"

SelectedPersona(s) ==
    s.trace[CHOOSE i \in 1 .. Len(s.trace) : s.trace[i].ev = "select"].tag

TextsOf(name) == {personas[name].responses[i] : i \in 1 .. Len(personas[name].responses)}

\* C15: for each provider, a request whose body names a catalog persona in
\* _persona is answered from that persona whatever the configured default is,
\* and a request without the field is answered from the configured default.
C15_OverrideFirst ==
    \A c \in DOMAIN conn :
        LET s == conn[c]
        IN  (Handled(s) /\ Selected(s)) =>
                /\ s.req.body.persona \in PersonaNames =>
                      /\ SelectedPersona(s) = s.req.body.persona
                      /\ s.sel.content \in TextsOf(s.req.body.persona)
                /\ s.req.body.persona = "" =>
                      /\ SelectedPersona(s) = config.defaults.persona
                      /\ s.sel.content \in TextsOf(config.defaults.persona)

C15_Witness ==
    \E c \in DOMAIN conn :
        /\ Handled(conn[c]) /\ Selected(conn[c]) /\ conn[c].pc = "done"
        /\ conn[c].provider = "anthropic"
        /\ config.defaults.persona = "tool_calls"
        /\ conn[c].req.body.persona = "terse" /\ SelectedPersona(conn[c]) = "terse"

\* whether an entry of a history carries a tool call or a part of one
IsToolOutput(e) ==
    /\ e.ev \in {"write", "end"}
    /\ \/ e.tag \in {"tool_header", "tool_args"}
       \/ e.sub \in {"tool_calls", "text,tool_use", "tool_use", "input_json_delta",
                     "functionCall"}

NormalStop(provider) ==
    CASE provider = "openai" -> "stop"
      [] provider = "anthropic" -> "end_turn"
      [] provider = "gemini" -> "STOP"

\* C16: for each provider a tool call is resolved, and a completed response
\* carries one, exactly when the request declares tools or the resolved
\* persona is tool_calls, and the resolved persona has tool-call variants;
\* otherwise the content is a text variant of the resolved persona, nothing
\* of a tool call is written, and the finish reason is the normal stop.
C16_ToolCallIff ==
    \A c \in DOMAIN conn :
        LET s == conn[c]
            tr == s.trace
            wantTool == /\ s.req.body.tools \/ SelectedPersona(s) = "tool_calls"
                        /\ personas[SelectedPersona(s)].hasToolCalls
        IN  (Handled(s) /\ Selected(s)) =>
                /\ s.sel.hasTool <=> wantTool
                /\ s.pc = "done" => ((\E i \in 1 .. Len(tr) : IsToolOutput(tr[i])) <=> wantTool)
                /\ ~wantTool =>
                      /\ s.sel.content \in TextsOf(SelectedPersona(s))
                      /\ \A i \in 1 .. Len(tr) :
                            /\ ~IsToolOutput(tr[i])
                            /\ tr[i].fin \in {"", NormalStop(s.provider)}
                      /\ s.pc = "done" =>
                            \E i \in 1 .. Len(tr) : tr[i].fin = NormalStop(s.provider)

C16_Witness ==
    \E c \in DOMAIN conn :
        /\ Handled(conn[c]) /\ Selected(conn[c]) /\ conn[c].pc = "done"
        /\ conn[c].req.body.tools /\ SelectedPersona(conn[c]) = "balanced"
        /\ conn[c].provider = "gemini" /\ conn[c].stream
        /\ ~conn[c].sel.hasTool

\* C17: every catalog persona with tool-call variants has as many text
\* variants as tool calls, and a resolved tool call is toolCalls[i] together
\* with the text responses[i] of the same index i.
C17_PairedIndex ==
    /\ \A n \in PersonaNames :
          personas[n].hasToolCalls =>
              Len(personas[n].responses) = Len(personas[n].toolCalls)
    /\ \A c \in DOMAIN conn :
          LET s == conn[c]
          IN  (Handled(s) /\ Selected(s) /\ s.sel.hasTool) =>
                  LET p == personas[SelectedPersona(s)]
                  IN  /\ s.sel.toolIdx \in 1 .. Len(p.toolCalls)
                      /\ s.sel.toolIdx <= Len(p.responses)
                      /\ s.sel.content = p.responses[s.sel.toolIdx]

C17_Witness ==
    \E c \in DOMAIN conn :
        /\ Handled(conn[c]) /\ Selected(conn[c]) /\ conn[c].sel.hasTool
        /\ conn[c].sel.toolIdx = 3
        /\ conn[c].sel.content = tool_calls_responses[3]
        /\ conn[c].pc = "done" /\ conn[c].provider = "openai"

SentinelPrefix == <<"_", "_", "E", "R", "R", "O", "R", "_", "_", ":">>

\* whether a text variant is an error sentinel, __ERROR__:<kind>
IsSentinel(text) ==
    /\ Len(text) >= Len(SentinelPrefix)
    /\ SubSeq(text, 1, Len(SentinelPrefix)) = SentinelPrefix

\* the kinds named by the sentinels of error_prone, in catalog order
SentinelKinds == <<"rate_limit", "context_length", "server_error", "timeout">>

\* C18: when the resolved text of a request is an error sentinel, the
\* response is the provider's fault response for the kind the sentinel names:
\* its status line is that of the fault payload, and no frame or body carries
\* the sentinel or any part of it, streaming or not.
C18_SentinelTranslated ==
    \A c \in DOMAIN conn :
        LET s == conn[c]
            tr == s.trace
        IN  (Handled(s) /\ Selected(s) /\ IsSentinel(s.sel.content)) =>
                \E k \in 1 .. Len(SentinelKinds) :
                    /\ s.sel.content = error_prone_responses[k]
                    /\ \A i \in 1 .. Len(tr) :
                          /\ tr[i].ev = "head" =>
                                tr[i].code = ErrorStatus(SentinelKinds[k], s.provider)
                          /\ tr[i].ev = "write" => tr[i].unit = <<>>
                          /\ tr[i].ev = "end" =>
                                /\ tr[i].tag = "chaos_error"
                                /\ tr[i].sub = s.provider
                                /\ tr[i].fin = SentinelKinds[k]

\* a stream of `provider` that ran to its res.end()
CompletedStream(s, provider) ==
    Handled(s) /\ s.provider = provider /\ Streaming(s) /\ s.pc = "done"

\* the units carried by the frames w[a], ..., w[b]
UnitsOf(w, a, b) == [j \in 1 .. b - a + 1 |-> w[a + j - 1].unit]

\* C19: a completed OpenAI stream writes, in this order: the role chunk with
\* empty content; for text one content chunk per token, for a tool call one
\* chunk with the call's name and then chunks that each carry one fragment of
\* the serialized arguments; one final chunk with an empty delta and
\* finish_reason stop (text) or tool_calls (tool call), with usage exactly on
\* text; and data: [DONE] as the last write before res.end().
C19_OpenAIFrameOrder ==
    \A c \in DOMAIN conn :
        LET s == conn[c]
            w == Writes(s)
            n == Len(w)
        IN  CompletedStream(s, "openai") =>
                /\ n >= 3
                /\ w[1].tag = "role" /\ w[1].sub = "assistant" /\ w[1].unit = <<>>
                /\ ~s.sel.hasTool =>
                      /\ \A j \in 2 .. n - 2 : w[j].tag = "content"
                      /\ UnitsOf(w, 2, n - 2) = tokenize(s.sel.content)
                /\ s.sel.hasTool =>
                      /\ n >= 4
                      /\ w[2].tag = "tool_header" /\ w[2].unit = <<>>
                      /\ w[2].sub = tool_calls_toolCalls[s.sel.toolIdx].name
                      /\ \A j \in 3 .. n - 2 : w[j].tag = "tool_args" /\ w[j].unit # <<>>
                      /\ Concat(UnitsOf(w, 3, n - 2)) =
                            tool_calls_toolCalls[s.sel.toolIdx].arguments
                /\ w[n - 1].tag = "finish" /\ w[n - 1].unit = <<>>
                /\ w[n - 1].fin = (IF s.sel.hasTool THEN "tool_calls" ELSE "stop")
                /\ w[n - 1].usage <=> ~s.sel.hasTool
                /\ w[n].tag = "[DONE]"
                /\ s.trace[Len(s.trace)].ev = "end"
                /\ \A i \in 1 .. Len(s.trace) - 1 : s.trace[i].ev # "end"

C19_Witness ==
    \E c \in DOMAIN conn :
        /\ CompletedStream(conn[c], "openai") /\ conn[c].sel.hasTool
        /\ Len(Writes(conn[c])) >= 8
        /\ ~conn[c].destroyed

\* the events of a completed Anthropic stream after message_start up to
\* res.end(): the text block (start, one text_delta per token, stop); for
\* tool use then the tool-use block (start, input_json_delta fragments of the
\* serialized arguments, stop); one message_delta with the stop reason and
\* the output count; message_stop last
AnthropicEventOrder(s) ==
    LET w == Writes(s)
        n == Len(w)
        T == Len(tokenize(s.sel.content))
    IN  /\ n >= T + 5
        /\ w[1].tag = "message_start"
        /\ w[2].tag = "content_block_start" /\ w[2].block = 0 /\ w[2].sub = "text"
        /\ \A j \in 3 .. T + 2 :
              /\ w[j].tag = "content_block_delta" /\ w[j].block = 0
              /\ w[j].sub = "text_delta"
        /\ UnitsOf(w, 3, T + 2) = tokenize(s.sel.content)
        /\ w[T + 3].tag = "content_block_stop" /\ w[T + 3].block = 0
        /\ ~s.sel.hasTool => n = T + 5
        /\ s.sel.hasTool =>
              /\ n >= T + 8
              /\ w[T + 4].tag = "content_block_start" /\ w[T + 4].block = 1
              /\ w[T + 4].sub = "tool_use"
              /\ \A j \in T + 5 .. n - 3 :
                    /\ w[j].tag = "content_block_delta" /\ w[j].block = 1
                    /\ w[j].sub = "input_json_delta" /\ w[j].unit # <<>>
              /\ Concat(UnitsOf(w, T + 5, n - 3)) =
                    tool_calls_toolCalls[s.sel.toolIdx].arguments
              /\ w[n - 2].tag = "content_block_stop" /\ w[n - 2].block = 1
        /\ w[n - 1].tag = "message_delta"
        /\ w[n - 1].fin = (IF s.sel.hasTool THEN "tool_use" ELSE "end_turn")
        /\ w[n - 1].outTok = estimateTokens(s.sel.content) /\ w[n - 1].inTok = -1
        /\ w[n].tag = "message_stop"
        /\ s.trace[Len(s.trace)].ev = "end"
        /\ \A i \in 1 .. Len(s.trace) - 1 : s.trace[i].ev # "end"

\* C20 as stated: a completed Anthropic stream starts with a message_start
\* whose usage is zero, followed by the text block, the tool-use block for
\* tool use, one message_delta with the final stop reason and the completion
\* usage, and message_stop as the last event.
C20_StartsWithZeroUsage ==
    \A c \in DOMAIN conn :
        CompletedStream(conn[c], "anthropic") =>
            /\ AnthropicEventOrder(conn[c])
            /\ Writes(conn[c])[1].usage
            /\ Writes(conn[c])[1].inTok = 0 /\ Writes(conn[c])[1].outTok = 0

\* C20, amended: the same order of events, the message_start carrying the
\* estimated input count of the prompt (never zero) and an output count of
\* zero.
C20_AnthropicEventOrder ==
    \A c \in DOMAIN conn :
        CompletedStream(conn[c], "anthropic") =>
            /\ AnthropicEventOrder(conn[c])
            /\ Writes(conn[c])[1].usage
            /\ Writes(conn[c])[1].inTok = (Len(PromptJSON(conn[c])) + 3) \div 4
            /\ Writes(conn[c])[1].inTok >= 1
            /\ Writes(conn[c])[1].outTok = 0

C20_Witness ==
    \E c \in DOMAIN conn :
        /\ CompletedStream(conn[c], "anthropic") /\ conn[c].sel.hasTool
        /\ ~conn[c].destroyed /\ conn[c].req.body.messages
        /\ Writes(conn[c])[1].inTok = 9 /\ Writes(conn[c])[1].outTok = 0
        /\ Len(Writes(conn[c])) >= 12

\* C21: a completed Anthropic stream for the tool_calls persona begins with
\* message_start, opens exactly one content block of type tool_use, ends with
\* message_stop, and its one message_delta, the last, has stop_reason tool_use.
C21_AnthropicToolScenario ==
    \A c \in DOMAIN conn :
        LET s == conn[c]
            w == Writes(s)
            n == Len(w)
            D == Positions(w, LAMBDA e : e.tag = "message_delta")
        IN  (CompletedStream(s, "anthropic") /\ SelectedPersona(s) = "tool_calls") =>
                /\ n >= 2
                /\ w[1].tag = "message_start"
                /\ Cardinality(Positions(w, LAMBDA e :
                       e.tag = "content_block_start" /\ e.sub = "tool_use")) = 1
                /\ w[n].tag = "message_stop"
                /\ D = {n - 1}
                /\ w[n - 1].fin = "tool_use"

C21_Witness ==
    \E c \in DOMAIN conn :
        /\ CompletedStream(conn[c], "anthropic") /\ ~conn[c].destroyed
        /\ conn[c].req.body.persona = "tool_calls" /\ conn[c].req.body.stream
        /\ ~conn[c].req.body.tools
        /\ SelectedPersona(conn[c]) = "tool_calls"

\* C22: a completed Gemini text stream writes one frame per token, in order;
\* its last frame carries usageMetadata, finishReason STOP and safety ratings,
\* and no earlier frame carries any of them.
C22_GeminiLastFrameOnly ==
    \A c \in DOMAIN conn :
        LET s == conn[c]
            w == Writes(s)
            n == Len(w)
        IN  (CompletedStream(s, "gemini") /\ ~s.sel.hasTool) =>
                /\ n >= 1
                /\ UnitsOf(w, 1, n) = tokenize(s.sel.content)
                /\ \A j \in 1 .. n : w[j].tag = "candidates" /\ w[j].sub = "text"
                /\ w[n].usage /\ w[n].fin = "STOP" /\ w[n].safety
                /\ w[n].totTok = w[n].inTok + w[n].outTok
                /\ \A j \in 1 .. n - 1 :
                      /\ ~w[j].usage /\ w[j].fin = "" /\ ~w[j].safety
                      /\ w[j].inTok = -1 /\ w[j].outTok = -1 /\ w[j].totTok = -1

C22_Witness ==
    \E c \in DOMAIN conn :
        /\ CompletedStream(conn[c], "gemini") /\ ~conn[c].sel.hasTool
        /\ conn[c].req.body.messages
        /\ Len(Writes(conn[c])) >= 4
        /\ Writes(conn[c])[Len(Writes(conn[c]))].usage

\* C23: a Gemini stream for a tool call writes exactly one frame, which
\* carries the whole function call (name and arguments), finishReason
\* TOOL_CALLS and usageMetadata; it writes no frame per token or per chunk of
\* the arguments.
C23_GeminiToolSingleFrame ==
    \A c \in DOMAIN conn :
        LET s == conn[c]
            w == Writes(s)
        IN  (Handled(s) /\ s.provider = "gemini" /\ Streaming(s) /\ s.sel.hasTool) =>
                /\ Len(w) <= 1
                /\ s.pc \in {"first_wait", "done"}
                /\ s.pc = "done" =>
                      /\ Len(w) = 1
                      /\ w[1].tag = "candidates" /\ w[1].sub = "functionCall"
                      /\ w[1].name = tool_calls_toolCalls[s.sel.toolIdx].name
                      /\ w[1].unit = tool_calls_toolCalls[s.sel.toolIdx].arguments
                      /\ w[1].fin = "TOOL_CALLS"
                      /\ w[1].usage /\ w[1].inTok >= 1 /\ w[1].outTok >= 1
                      /\ w[1].totTok = w[1].inTok + w[1].outTok
                      /\ s.trace[Len(s.trace)].ev = "end"

C23_Witness ==
    \E c \in DOMAIN conn :
        /\ CompletedStream(conn[c], "gemini") /\ conn[c].sel.hasTool
        /\ conn[c].sel.toolIdx = 3 /\ Len(Writes(conn[c])) = 1

\* the request {model: "gpt-4", messages: [{role: "user", content: "Hello"}],
\* stream: false} to /v1/chat/completions, handed to the OpenAI handler of a
\* server whose default persona is the shipped one
HelloScenario(s) ==
    /\ Handled(s) /\ s.provider = "openai"
    /\ s.req.body = [stream |-> FALSE, persona |-> "", tools |-> FALSE, messages |-> TRUE]
    /\ config.defaults.persona = "balanced"

\* C24: the OpenAI non-streaming Hello request is answered with status 200
\* and one chat.completion document whose message content is not empty, whose
\* finish_reason is stop and whose usage has total_tokens = prompt_tokens +
\* completion_tokens.
C24_OpenAIHelloScenario ==
    \A c \in DOMAIN conn :
        LET s == conn[c]
            tr == s.trace
            n == Len(tr)
        IN  HelloScenario(s) =>
                /\ s.pc = "done" /\ Writes(s) = <<>>
                /\ tr[n - 1].ev = "head" /\ tr[n - 1].code = 200
                /\ tr[n].ev = "end" /\ tr[n].tag = "chat.completion"
                /\ tr[n].sub = "content" /\ tr[n].unit # <<>>
                /\ tr[n].unit \in TextsOf("balanced")
                /\ tr[n].fin = "stop"
                /\ tr[n].usage /\ tr[n].inTok >= 1 /\ tr[n].outTok >= 1
                /\ tr[n].totTok = tr[n].inTok + tr[n].outTok

C24_Witness ==
    \E c \in DOMAIN conn :
        /\ HelloScenario(conn[c]) /\ conn[c].pc = "done"
        /\ conn[c].trace[Len(conn[c].trace)].inTok = 9
        /\ conn[c].trace[Len(conn[c].trace)].totTok > 9

\* the announcement of a stream: the role chunk (OpenAI), message_start
\* (Anthropic); a Gemini stream announces itself with its response head alone
IsAnnouncement(provider, e) ==
    CASE provider = "openai" -> e.ev = "write" /\ e.tag = "role"
      [] provider = "anthropic" -> e.ev = "write" /\ e.tag = "message_start"
      [] provider = "gemini" -> e.ev = "head"

\* a frame written by an iteration of a per-token or per-chunk loop
IsLoopFrame(e) ==
    /\ e.ev = "write"
    /\ \/ e.tag \in {"content", "tool_args", "content_block_delta"}
       \/ e.tag = "candidates" /\ e.sub = "text"

\* a frame that carries content: a loop frame, the OpenAI chunk with the
\* call's name, or the Gemini frame with the whole function call
IsContentFrame(e) ==
    \/ IsLoopFrame(e)
    \/ e.ev = "write" /\ e.tag = "tool_header"
    \/ e.ev = "write" /\ e.tag = "candidates" /\ e.sub = "functionCall"

\* the number of per-unit sleeps between entry i and the nearest earlier
\* entry that is a frame of the kind Test or the first-unit sleep
UnitSleepsBefore(tr, i, Test(_)) ==
    LET P == {j \in 1 .. i - 1 : Test(tr[j]) \/ (tr[j].ev = "sleep" /\ tr[j].tag = "first")}
        p == IF P = {} THEN 0 ELSE CHOOSE j \in P : \A k \in P : k <= j
    IN  Cardinality({j \in p + 1 .. i - 1 : tr[j].ev = "sleep" /\ tr[j].tag = "unit"})

\* announced, emitting, finished in that order: one announcement, then one
\* first-unit sleep, then the content frames, then the terminal frames and
\* res.end()
SessionOrder(s) ==
    LET tr == s.trace
        A == Positions(tr, LAMBDA e : IsAnnouncement(s.provider, e))
        F == Positions(tr, LAMBDA e : e.ev = "sleep" /\ e.tag = "first")
        U == Positions(tr, LAMBDA e : IsContentFrame(e))
        Z == Positions(tr, LAMBDA e :
                 e.ev = "end" \/ (e.ev = "write" /\ e.tag \in
                     {"finish", "[DONE]", "message_delta", "message_stop"}))
    IN  /\ Cardinality(A) = 1 /\ Cardinality(F) = 1
        /\ \A a \in A, f \in F : a < f
        /\ \A f \in F, u \in U : f < u
        /\ \A u \in U, z \in Z : u < z
        /\ \A f \in F, z \in Z : f < z

\* C25 as stated: in every stream one announcement, then one first-unit
\* delay, then the content frames, then the finish; and every content frame
\* is preceded by exactly one per-unit delay.
C25_EveryContentFramePaced ==
    \A c \in DOMAIN conn :
        LET s == conn[c]
        IN  (Handled(s) /\ Streaming(s)) =>
                /\ SessionOrder(s)
                /\ \A i \in 1 .. Len(s.trace) :
                      IsContentFrame(s.trace[i]) =>
                          UnitSleepsBefore(s.trace, i, IsContentFrame) = 1

\* C25, amended: the same order; every frame written by a per-token or
\* per-chunk loop is preceded by exactly one per-unit delay; the OpenAI chunk
\* with the call's name and the Gemini function-call frame follow the
\* first-unit delay with no per-unit delay.
C25_SessionOrder ==
    \A c \in DOMAIN conn :
        LET s == conn[c]
        IN  (Handled(s) /\ Streaming(s)) =>
                /\ SessionOrder(s)
                /\ \A i \in 1 .. Len(s.trace) :
                      /\ IsLoopFrame(s.trace[i]) =>
                            UnitSleepsBefore(s.trace, i, IsLoopFrame) = 1
                      /\ (IsContentFrame(s.trace[i]) /\ ~IsLoopFrame(s.trace[i])) =>
                            /\ UnitSleepsBefore(s.trace, i, IsContentFrame) = 0
                            /\ s.trace[i - 1].ev = "sleep" /\ s.trace[i - 1].tag = "first"

C25_Witness ==
    \E c \in DOMAIN conn :
        /\ CompletedStream(conn[c], "openai") /\ conn[c].sel.hasTool
        /\ \E i \in 1 .. Len(conn[c].trace) : conn[c].trace[i].tag = "tool_header"
        /\ Cardinality(Positions(conn[c].trace, IsLoopFrame)) >= 7

\* C26: when a provider handler throws, the client gets the generic
\* internal-error response (status 500): the failure does not leave the
\* request handler as a rejected promise, and the connection is not left
\* without a response.
C26_FailureSurfaced ==
    \A c \in DOMAIN conn :
        LET s == conn[c]
            tr == s.trace
        IN  /\ s.pc # "rejected"
            /\ \A i \in 1 .. Len(tr) :
                  tr[i].ev = "throw" =>
                      /\ s.pc = "done"
                      /\ Len(tr) = i + 2
                      /\ tr[i + 1].ev = "head" /\ tr[i + 1].code = 500
                      /\ tr[i + 2].ev = "end" /\ tr[i + 2].tag = "internal_error"

\* a POST request whose body the server reads and cannot parse
MalformedPost(s) == s.req.method = "POST" /\ ~s.req.bodyOk

\* C27: a POST request with a body that is not valid JSON gets one generic
\* error response and nothing else: no fault outcome is drawn, no provider
\* handler runs, no content is resolved and no frame is written.
C27_MalformedBodyAbandoned ==
    \A c \in DOMAIN conn :
        LET s == conn[c]
            tr == s.trace
        IN  MalformedPost(s) =>
                /\ s.pc \in {"body_wait", "done"}
                /\ s.draws = 0 /\ s.chaosType = "unset"
                /\ s.hcfg = NoConfig /\ s.sel = NoSelection
                /\ Writes(s) = <<>>
                /\ s.pc = "body_wait" => tr = <<>>
                /\ s.pc = "done" =>
                      /\ Len(tr) = 2
                      /\ tr[1].ev = "head" /\ tr[1].code >= 400
                      /\ tr[2].ev = "end" /\ tr[2].tag = "internal_error"

C27_Witness ==
    \E c \in DOMAIN conn :
        /\ MalformedPost(conn[c]) /\ conn[c].pc = "done"
        /\ conn[c].req.path = "/v1/messages"
        /\ config.chaos.enabled /\ config.chaos.rateLimitRate = RateScale
        /\ conn[c].trace[1].code = 500

\* a received request whose path is none of the routes the server knows
UnknownRoute(s) ==
    /\ s.pc # "idle"
    /\ s.req.path \notin MetaPaths
    /\ ProviderOf(s.req.path) = ""

\* C28: every request to a path that is not a supported route is answered with
\* the 404 document that carries the hint, and neither a fault outcome is
\* drawn nor a provider handler run for it.
C28_UnknownRouteNotFound ==
    \A c \in DOMAIN conn :
        LET s == conn[c]
            tr == s.trace
        IN  UnknownRoute(s) =>
                /\ s.draws = 0 /\ s.chaosType = "unset"
                /\ s.hcfg = NoConfig /\ s.sel = NoSelection
                /\ s.pc = "done" =>
                      /\ Len(tr) = 2
                      /\ tr[1].ev = "head" /\ tr[1].code = 404
                      /\ tr[2].ev = "end" /\ tr[2].tag = "not_found"

\* the configuration a handler was given is the server's, with the two
\* latency bases scaled if the request's own outcome was slowdown
OwnConfig(s) == IF s.chaosType = "slowdown" THEN slowConfig(config) ELSE config

\* what a request has seen of the configuration and the catalog depends on
\* its own outcome alone
Independent(s) ==
    /\ s.hcfg \in {NoConfig, OwnConfig(s)}
    /\ \A i \in 1 .. Len(s.trace) :
          s.trace[i].ev = "sleep" =>
              s.trace[i].base = IF s.trace[i].tag = "first"
                                THEN OwnConfig(s).latency.firstToken
                                ELSE OwnConfig(s).latency.perToken
    /\ s.sel # NoSelection =>
          s.sel \in SelectContent(resolvePersona(s.req.body, config), s.req.body)

\* a step of the server leaves the configuration as it is and changes the
\* state of one request only
OneRequestStep ==
    /\ config' = config
    /\ \A c, d \in DOMAIN conn : (conn'[c] # conn[c] /\ c # d) => conn'[d] = conn[d]

\* C29: under every interleaving of the requests in flight, the shared
\* configuration never changes, a step of one request leaves the others as
\* they are, and the latency bases and catalog content a request sees are
\* those of the unchanged configuration, scaled only by its own slowdown.
C29_SharedStateReadOnly ==
    /\ [](\A c \in DOMAIN conn : Independent(conn[c]))
    /\ [][OneRequestStep]_vars

\* one request slowed down and one not, both suspended in their streams
C29_Witness ==
    /\ Cardinality(DOMAIN conn) = 2
    /\ conn[1].chaosType = "slowdown" /\ conn[1].pc = "unit_wait"
    /\ conn[2].chaosType = "none" /\ conn[2].pc = "unit_wait"
    /\ conn[1].hcfg.latency.perToken = config.latency.perToken * config.chaos.slowdownMultiplier
    /\ conn[2].hcfg.latency.perToken = config.latency.perToken
    /\ conn[1].hcfg # conn[2].hcfg

\* a frame written by the loop `loop` of a stream: the token loop or the
\* argument-chunk loop
LoopFrameOf(loop, e) ==
    /\ IsLoopFrame(e)
    /\ (loop = "args") <=> (e.tag = "tool_args" \/ e.sub = "input_json_delta")

\* the units carried by the frames that the current loop has written
Emitted(s) ==
    LET w == SelectSeq(s.trace, LAMBDA e : LoopFrameOf(s.loop, e))
    IN  UnitsOf(w, 1, Len(w))

\* the cursor is within the sequence and the frames written so far carry
\* exactly the units before it, in order
CursorInRange(s) ==
    /\ s.i \in 0 .. Len(s.units)
    /\ IF s.loop = ""
       THEN s.i = 0 /\ \A j \in 1 .. Len(s.trace) : ~IsLoopFrame(s.trace[j])
       ELSE Emitted(s) = SubSeq(s.units, 1, s.i)

\* a loop is entered at 0; within a loop the sequence is fixed and the cursor
\* stays or moves forward by one, moving exactly when one frame is written
CursorStep(s, t) ==
    /\ t.loop # s.loop => t.i = 0
    /\ (t.loop = s.loop /\ s.loop # "") =>
          /\ t.units = s.units
          /\ t.i \in {s.i, s.i + 1}
          /\ Len(Writes(t)) - Len(Writes(s)) >= t.i - s.i
          /\ t.i = s.i + 1 =>
                \E j \in Len(s.trace) + 1 .. Len(t.trace) :
                    /\ LoopFrameOf(t.loop, t.trace[j])
                    /\ t.trace[j].unit = s.units[s.i + 1]

\* C30: in every stream the cursor of a loop over tokens or argument chunks
\* starts at 0, moves forward by one with each frame the loop writes, never
\* moves back and never passes the end of the sequence, and the frames carry
\* the units in sequence order with none skipped and none repeated.
C30_CursorMonotone ==
    /\ [](\A c \in DOMAIN conn : CursorInRange(conn[c]))
    /\ [][\A c \in DOMAIN conn : CursorStep(conn[c], conn'[c])]_vars

\* a stream over three or more units that ran to the end of the sequence, or
\* was cut short by a disconnect with units left
C30_Witness ==
    \E c \in DOMAIN conn :
        LET s == conn[c]
        IN  /\ s.provider = "gemini" /\ s.loop = "text"
            /\ Len(s.units) >= 3
            /\ \/ s.pc = "done" /\ s.i = Len(s.units)
               \/ s.pc = "returned" /\ s.i \in 1 .. Len(s.units) - 1
            /\ Emitted(s) = SubSeq(s.units, 1, s.i)

----------------------------------------------------------------------------
(* properties, third part *)

\* C31: an Anthropic request answered in one piece gets one document: its
\* content is the text block alone with stop_reason end_turn when no tool call
\* was selected, the text block and then the tool_use block with stop_reason
\* tool_use when one was, with one stop_reason and one usage object.
C31_AnthropicDocument ==
    \A c \in DOMAIN conn :
        LET s == conn[c]
            tr == s.trace
            n == Len(tr)
        IN  (Handled(s) /\ s.provider = "anthropic" /\ ~Streaming(s) /\ s.pc = "done") =>
                /\ Writes(s) = <<>>
                /\ Cardinality(Positions(tr, LAMBDA e : e.ev = "end")) = 1
                /\ tr[n].ev = "end" /\ tr[n].tag = "message"
                /\ tr[n - 1].ev = "head" /\ tr[n - 1].code = 200
                /\ tr[n].unit = s.sel.content
                /\ tr[n].usage /\ tr[n].inTok >= 1 /\ tr[n].outTok >= 1
                /\ tr[n].fin \in {"end_turn", "tool_use"}
                /\ ~s.sel.hasTool => (tr[n].sub = "text" /\ tr[n].fin = "end_turn")
                /\ s.sel.hasTool => (tr[n].sub = "text,tool_use" /\ tr[n].fin = "tool_use")

C31_Witness ==
    \E c \in DOMAIN conn :
        LET s == conn[c]
        IN  /\ Handled(s) /\ s.provider = "anthropic" /\ ~Streaming(s) /\ s.pc = "done"
            /\ s.sel.hasTool
            /\ s.trace[Len(s.trace)].sub = "text,tool_use"

\* a stream suspended in one of its sleeps
Suspended(s) == s.pc \in {"first_wait", "unit_wait"}

\* the handler has returned: after res.end(), or at a poll that found the
\* peer gone
Stopped(s) == s.pc \in {"done", "returned"}

\* C32: with every timer firing, every suspended stream comes to a stop; it
\* stops short of res.end() only if its peer disconnected, so a stream whose
\* peer stays connected ends with res.end().
C32_StreamsTerminate ==
    /\ \A c \in Conns : Suspended(conn[c]) ~> Stopped(conn[c])
    /\ [](\A c \in Conns :
             LET s == conn[c]
             IN  /\ s.pc = "returned" => s.destroyed
                 /\ (Streaming(s) /\ Stopped(s) /\ ~s.destroyed) =>
                       /\ s.pc = "done"
                       /\ s.trace[Len(s.trace)].ev = "end")

\* a stream over three or more units that ran to res.end() with its peer
\* connected throughout
C32_Witness ==
    \E c \in DOMAIN conn :
        LET s == conn[c]
        IN  /\ Streaming(s) /\ s.pc = "done" /\ ~s.destroyed
            /\ Len(s.units) >= 3 /\ s.i = Len(s.units)
            /\ s.provider = "openai"
            /\ s.trace[Len(s.trace)].ev = "end"

\* the text of the document that the provider's non-streaming renderer
\* writes for the content selected in s
RenderedText(s) ==
    LET s0 == [s EXCEPT !.trace = <<>>]
        d == CASE s.provider = "openai" -> OpenAISendNonStreaming(s0)
               [] s.provider = "anthropic" -> AnthropicSendNonStreaming(s0)
               [] s.provider = "gemini" -> GeminiSendNonStreaming(s0)
    IN  d.trace[Len(d.trace)].unit

\* the frames of a stream that carry a piece of text
TextFrames(s) == SelectSeq(s.trace, LAMBDA e : LoopFrameOf("text", e))

\* C33: a completed text stream of any of the three emitters has as many
\* content-delta frames as the selected content has tokens, and the delta
\* texts concatenated in the order written are the text that the
\* non-streaming renderer returns for the same content.
C33_StreamEqualsDocument ==
    \A c \in DOMAIN conn :
        LET s == conn[c]
            w == TextFrames(s)
        IN  (Handled(s) /\ Streaming(s) /\ s.pc = "done" /\ ~s.sel.hasTool) =>
                /\ Len(w) = Len(tokenize(s.sel.content))
                /\ Concat(UnitsOf(w, 1, Len(w))) = RenderedText(s)

\* a completed OpenAI text stream whose content has a word, a space and
\* more
C33_Witness ==
    \E c \in DOMAIN conn :
        LET s == conn[c]
            w == TextFrames(s)
        IN  /\ Handled(s) /\ Streaming(s) /\ s.pc = "done" /\ ~s.sel.hasTool
            /\ s.provider = "openai"
            /\ Len(w) >= 3
            /\ \E j \in 1 .. Len(w) : IsSpace(w[j].unit[1])
            /\ RenderedText(s) = s.sel.content

\* the frames of a stream that carry a fragment of the serialized arguments
ArgFrames(s) == SelectSeq(s.trace, LAMBDA e : LoopFrameOf("args", e))

\* the chunk size of the provider's argument loop
ChunkSizeOf(provider) ==
    IF provider = "openai" THEN OpenAIChunkSize ELSE AnthropicChunkSize

\* a tool-call stream of OpenAI or Anthropic that ran to res.end()
CompletedToolStream(s) ==
    /\ Handled(s) /\ Streaming(s) /\ s.pc = "done" /\ s.sel.hasTool
    /\ s.provider \in {"openai", "anthropic"}

\* C34: in a completed tool-call stream the argument fragments, concatenated
\* in the order written, are the JSON serialization of the selected call's
\* arguments; every fragment is non-empty and at most 8 (OpenAI) or 12
\* (Anthropic) characters long, and only the last one may be shorter.
C34_FragmentsRebuildArguments ==
    \A c \in DOMAIN conn :
        LET s == conn[c]
            w == ArgFrames(s)
            size == ChunkSizeOf(s.provider)
        IN  CompletedToolStream(s) =>
                /\ Concat(UnitsOf(w, 1, Len(w))) = ArgsStr(s)
                /\ \A j \in 1 .. Len(w) :
                      /\ Len(w[j].unit) \in 1 .. size
                      /\ j < Len(w) => Len(w[j].unit) = size

\* a completed Anthropic tool-call stream whose last fragment is short
C34_Witness ==
    \E c \in DOMAIN conn :
        LET s == conn[c]
            w == ArgFrames(s)
        IN  /\ CompletedToolStream(s) /\ s.provider = "anthropic"
            /\ Len(w) >= 3
            /\ Len(w[Len(w)].unit) < AnthropicChunkSize
            /\ Len(w[1].unit) = AnthropicChunkSize

\* the content blocks that are open after the frames w[1], ..., w[j]: started
\* and not yet stopped
OpenBlocks(w, j) ==
    {b \in {0, 1} :
        /\ \E k \in 1 .. j : w[k].tag = "content_block_start" /\ w[k].block = b
        /\ ~\E k \in 1 .. j : w[k].tag = "content_block_stop" /\ w[k].block = b}

\* the frames of w with tag `tag` and block index b
BlockFrames(w, tag, b) == {k \in 1 .. Len(w) : w[k].tag = tag /\ w[k].block = b}

WellBracketed(w) ==
    /\ \A j \in 1 .. Len(w) :
          /\ Cardinality(OpenBlocks(w, j)) <= 1
          /\ w[j].tag \in {"content_block_start", "content_block_delta",
                           "content_block_stop"} => w[j].block \in {0, 1}
          \* a block is started while none is open, and block 1 after block 0
          /\ w[j].tag = "content_block_start" =>
                /\ OpenBlocks(w, j - 1) = {}
                /\ w[j].block = 1 =>
                      \E k \in 1 .. j - 1 :
                          w[k].tag = "content_block_stop" /\ w[k].block = 0
          \* a delta and a stop belong to the block that is open
          /\ w[j].tag \in {"content_block_delta", "content_block_stop"} =>
                OpenBlocks(w, j - 1) = {w[j].block}
          /\ w[j].tag = "content_block_delta" =>
                /\ w[j].sub \in {"text_delta", "input_json_delta"}
                /\ w[j].sub = "text_delta" <=> w[j].block = 0
                /\ w[j].sub = "input_json_delta" <=> w[j].block = 1
          /\ w[j].tag \in {"message_delta", "message_stop"} =>
                OpenBlocks(w, j - 1) = {}
    /\ \A b \in {0, 1} :
          /\ Cardinality(BlockFrames(w, "content_block_start", b)) <= 1
          /\ Cardinality(BlockFrames(w, "content_block_stop", b)) <= 1

\* C35: in an Anthropic stream, at every point of it and whether it ran to
\* its end or was cut short, the content blocks are well bracketed: a delta
\* of block i comes after content_block_start i and before content_block_stop
\* i, at most one block is open, block 0 comes before block 1, text_delta is
\* in block 0 only and input_json_delta in block 1 only, and message_delta
\* and message_stop come while no block is open.
C35_BlocksWellBracketed ==
    \A c \in DOMAIN conn :
        LET s == conn[c]
        IN  (Handled(s) /\ Streaming(s) /\ s.provider = "anthropic") =>
                WellBracketed(Writes(s))

\* a tool-call stream that closed block 0 and was cut short inside block 1
C35_Witness ==
    \E c \in DOMAIN conn :
        LET s == conn[c]
            w == Writes(s)
        IN  /\ Handled(s) /\ Streaming(s) /\ s.provider = "anthropic"
            /\ BlockFrames(w, "content_block_delta", 0) # {}
            /\ BlockFrames(w, "content_block_delta", 1) # {}
            /\ s.pc = "returned" /\ OpenBlocks(w, Len(w)) = {1}

\* the fault outcomes that shouldTriggerChaos returns
DrawnOutcomes == {"none", "rate_limit", "server_error", "slowdown"}

\* the response statuses of the server
ServedStatuses == {200, 204, 404, 405, 429, 500}

IsPrefix(seq, whole) ==
    Len(seq) <= Len(whole) /\ seq = SubSeq(whole, 1, Len(seq))

\* the frames written to a connection carry the content selected for its own
\* request and nothing else
OwnFrames(s) ==
    LET t == TextFrames(s)
        a == ArgFrames(s)
    IN  /\ IsPrefix(Concat(UnitsOf(t, 1, Len(t))), s.sel.content)
        /\ a # <<>> => s.sel.hasTool /\ IsPrefix(Concat(UnitsOf(a, 1, Len(a))), ArgsStr(s))

\* what can happen to a suspended stream on a server that serves nothing
\* else: its timer fires, or its peer goes away
SoloSteps(s) ==
    {AfterWake(s)} \cup
    (IF s.destroyed THEN {}
     ELSE {[s EXCEPT !.destroyed = TRUE, !.destroyedAt = Len(s.trace)]})

\* a step changes one connection; a suspended stream moves as it would alone
\* and only adds to what it has written
IsolatedStep ==
    \A c, d \in DOMAIN conn :
        /\ (c # d /\ conn'[c] # conn[c]) => conn'[d] = conn[d]
        /\ (Suspended(conn[d]) /\ conn'[d] # conn[d]) => conn'[d] \in SoloSteps(conn[d])
        /\ IsPrefix(conn[d].trace, conn'[d].trace)
        /\ (c # d /\ conn'[c].destroyed /\ ~conn[c].destroyed) =>
              (conn'[d].destroyed = conn[d].destroyed /\ conn'[d].pc = conn[d].pc)

\* C37: with several streams in flight and their waits interleaved in any
\* order, each connection is written only frames of its own content, in the
\* order in which a server with that request alone writes them, and a
\* disconnect of one peer changes nothing for any other connection.
C37_StreamsIsolated ==
    /\ [](\A c \in DOMAIN conn : OwnFrames(conn[c]))
    /\ [][IsolatedStep]_vars

\* one stream cut short by its peer and another, of different content, that
\* ran to its end
C37_Witness ==
    /\ Cardinality(DOMAIN conn) = 2
    /\ conn[1].pc = "returned" /\ conn[1].destroyed
    /\ TextFrames(conn[1]) # <<>>
    /\ conn[2].pc = "done" /\ Streaming(conn[2]) /\ ~conn[2].destroyed
    /\ conn[2].sel.content # conn[1].sel.content
    /\ LET t == TextFrames(conn[2])
       IN  Len(t) >= 3 /\ Concat(UnitsOf(t, 1, Len(t))) = conn[2].sel.content

====
